---- MODULE Spec2Model ----
(***************************************************************************)
(* Packet capture tool: the rotating JSONL segment writer, the segment     *)
(* reader with its file-level LRU cache, the in-memory packet buffer and   *)
(* the pagination logic of PacketCaptureApp (src/src/app.py,               *)
(* src/src/storage.py, src/src/packet_parser.py, src/src/capture.py).      *)
(*                                                                         *)
(* Every GUI handler runs to completion on the GUI thread, so each handler *)
(* is one action.  The capture thread and the background sniffer-stop      *)
(* thread are separate actions.                                            *)
(***************************************************************************)
EXTENDS Integers, Sequences, FiniteSets, TLC

VARIABLES
    packet_queue,              \* queue.Queue of parsed packets (FIFO)
    captured_packets,          \* deque of <<index, packet>>, maxlen _ui_cache_size
    _packet_cache,             \* dict index -> packet
    _packet_cache_max_size,    \* bound of _packet_cache
    _ui_cache_size,            \* maxlen of captured_packets
    _packet_global_index,      \* next index
    _file_cache,               \* dict file key -> list of <<index, packet>>
    _file_cache_access_order,  \* LRU order, oldest first
    _capture_session_name,     \* 0 is None, otherwise the session's name
    _jsonl_writer,             \* <<>> is None, otherwise <<writer>>
    files,                     \* the captures directory: file key -> lines
    _page_size,
    _current_page,
    _new_packets_since_page,
    _pending_page_reload,
    _auto_page_enabled,
    _batch_size_setting,
    _display_filter_enabled,
    _save_raw_packets,
    packet_table,              \* rows shown: sequence of <<index, packet>>
    page_label,                \* text of the page label
    phase,                     \* capture control: idle, starting, started, running
    sniffer,                   \* TRUE while a sniffer thread delivers packets
    stop_thread,               \* TRUE while a stop_sniffer thread has yet to run
    \* CaptureManager, step by step (capture.py)
    _sniffer,                  \* 0 is None, otherwise the AsyncSniffer referred to
    _filter_expr,              \* "None" or the filter expression
    _iface,                    \* "None" or the interface
    sniffers,                  \* the AsyncSniffer objects created so far
    caller,                    \* the thread that calls start, stop and restart
    stop_sniffer_threads,      \* the stop_sniffer threads spawned by stop
    \* ResourceMonitor, step by step (resource_monitor.py)
    _thread,                   \* 0 is None, otherwise the _run thread referred to
    _stop_event,               \* threading.Event: TRUE while set
    run_threads,               \* position of every _run thread created so far
    monitor_caller             \* the thread that calls start and stop

vars == <<packet_queue, captured_packets, _packet_cache, _packet_cache_max_size,
          _ui_cache_size, _packet_global_index, _file_cache,
          _file_cache_access_order, _capture_session_name, _jsonl_writer, files,
          _page_size, _current_page, _new_packets_since_page,
          _pending_page_reload, _auto_page_enabled,
          _batch_size_setting, _display_filter_enabled, _save_raw_packets,
          packet_table, page_label, phase, sniffer, stop_thread,
          _sniffer, _filter_expr, _iface, sniffers, caller,
          stop_sniffer_threads, _thread, _stop_event, run_threads,
          monitor_caller>>

(***************************************************************************)
(* Bounds of the model.  Sizes that the program takes from its settings or *)
(* passes as arguments (cache size, batch size, segment size, number of    *)
(* cached files) are scaled down so that eviction, rotation and batching   *)
(* happen within a few records.                                            *)
(***************************************************************************)
MaxIndex == 4
MaxStored == 3
MaxPageSize == 2
MaxQueue == 2
MaxBatch == 2
MaxCacheSize == 2
MaxFileSize == 3
FileCacheMaxFiles == 2
MaxSessions == 2
MaxLoad == 3
MaxWrites == 5

DefaultPageSize == 100

Min(a, b) == IF a < b THEN a ELSE b
Max(a, b) == IF a > b THEN a ELSE b

(***************************************************************************)
(* Packets.  A ParsedPacket is reduced to its summary and its optional raw *)
(* bytes; "none" stands for Python's None.                                 *)
(***************************************************************************)
Summaries == {"a", "b"}

ParsedPacket(summary, raw) == [summary |-> summary, raw_b64 |-> raw]

\* ParsedPacket.to_json: every field becomes a JSON member.
to_json(pkt) == [summary |-> pkt.summary, raw_b64 |-> pkt.raw_b64, has_raw |-> TRUE]

\* data.pop("raw_b64", None): the member is removed from the JSON object.
pop_raw(data) == [summary |-> data.summary, raw_b64 |-> "none", has_raw |-> FALSE]

\* ParsedPacket.from_json: payload.get("raw_b64") is None for a missing member.
from_json(data) ==
    ParsedPacket(data.summary, IF data.has_raw THEN data.raw_b64 ELSE "none")

\* len(line.encode("utf-8")) of the serialized record, in scaled units.
line_size(payload) == IF payload.data.summary = "a" THEN 1 ELSE 2

\* A line of a segment file that json.loads rejects (a truncated or
\* overwritten record).
MalformedLine ==
    [index |-> -1,
     data |-> [summary |-> "malformed", raw_b64 |-> "none", has_raw |-> FALSE]]

Malformed(line) == line = MalformedLine

(***************************************************************************)
(* The condition of the storage while a handler runs: the files that       *)
(* open(path, "r") cannot open (vanished since the glob, or inaccessible), *)
(* whether file.write raises, and whether open(path, "w") raises.          *)
(***************************************************************************)
NoFault == [unreadable |-> {}, write |-> FALSE, open |-> FALSE]

\* The files that open(path, "r") can open.
Readable(disk, io) ==
    IF io.unreadable = {} THEN disk
    ELSE [k \in DOMAIN disk \ io.unreadable |-> disk[k]]

(***************************************************************************)
(* Page arithmetic, as written in every pagination handler.                *)
(***************************************************************************)
\* A page count that rounds down instead of up.
TotalPagesFloor(total, page_size) == total \div page_size

TotalPages(total, page_size) == (total + page_size - 1) \div page_size
PageStart(page, page_size) == (page - 1) * page_size
PageEnd(page, page_size, last_index) ==
    Min(PageStart(page, page_size) + page_size - 1, last_index)

(***************************************************************************)
(* Sequences as Python lists.                                              *)
(***************************************************************************)
RECURSIVE Remove(_, _)
\* list.remove(x): removes the first occurrence.
Remove(s, x) ==
    IF s = <<>> THEN <<>>
    ELSE IF Head(s) = x THEN Tail(s)
    ELSE <<Head(s)>> \o Remove(Tail(s), x)

InSeq(s, x) == \E i \in 1..Len(s) : s[i] = x

RECURSIVE InsertByIndex(_, _)
InsertByIndex(sorted, item) ==
    IF sorted = <<>> THEN <<item>>
    ELSE IF item[1] < Head(sorted)[1] THEN <<item>> \o sorted
    ELSE <<Head(sorted)>> \o InsertByIndex(Tail(sorted), item)

RECURSIVE SortByIndex(_)
\* list.sort(key=lambda x: x[0]): stable, ascending by index.
SortByIndex(s) ==
    IF s = <<>> THEN <<>>
    ELSE InsertByIndex(SortByIndex(SubSeq(s, 1, Len(s) - 1)), s[Len(s)])

RECURSIVE FilterRange(_, _, _)
FilterRange(s, lo, hi) ==
    IF s = <<>> THEN <<>>
    ELSE (IF lo <= Head(s)[1] /\ Head(s)[1] <= hi THEN <<Head(s)>> ELSE <<>>)
         \o FilterRange(Tail(s), lo, hi)

Indices(s) == {s[i][1] : i \in 1..Len(s)}

DropKey(f, k) == [x \in DOMAIN f \ {k} |-> f[x]]
Put(f, k, v) == [x \in DOMAIN f \cup {k} |-> IF x = k THEN v ELSE f[x]]

(***************************************************************************)
(* RotatingJSONLWriter (src/src/storage.py).  A file key is                *)
(* <<session name, ordinal>>, standing for "<session>_<%04d>.jsonl".       *)
(***************************************************************************)
FileKey(session_name, ordinal) == <<session_name, ordinal>>

\* The decimal digits of a natural number, most significant first.
RECURSIVE Digits(_)
Digits(n) == IF n < 10 THEN <<n>> ELSE Append(Digits(n \div 10), n % 10)

\* f"{idx:04d}": the width of the zero-padded ordinal.
PadWidth == 4

\* The ordinal as _rotate_file formats it into the file name: padded with
\* zeros to PadWidth digits, longer when the ordinal needs more.
FileName(ordinal) ==
    LET d == Digits(ordinal)
        pad == PadWidth - Len(d)
    IN IF pad <= 0 THEN d
       ELSE [i \in 1..PadWidth |-> IF i <= pad THEN 0 ELSE d[i - pad]]

\* String order of two file names of one session: the first differing digit
\* decides, and a name that ends first is followed by ".", which sorts before
\* every digit.
NameLess(a, b) ==
    \E i \in 1..(Min(Len(a), Len(b)) + 1) :
        /\ \A j \in 1..(i - 1) : a[j] = b[j]
        /\ \/ i > Len(a) /\ i <= Len(b)
           \/ i <= Len(a) /\ i <= Len(b) /\ a[i] < b[i]

\* _rotate_file: close, next ordinal, open(path, "w") truncates or creates.
\* When open raises, the except clause logs and leaves _current_file None:
\* the ordinal stays advanced, the size counter is not reset, no file is made.
_rotate_file_io(w, disk, io) ==
    LET idx == w._current_file_index + 1
    IN IF io.open
       THEN [writer |-> [w EXCEPT !._current_file = FALSE,
                                  !._current_file_index = idx],
             files |-> disk]
       ELSE [writer |-> [w EXCEPT !._current_file = TRUE,
                                  !._current_file_index = idx,
                                  !._current_file_size = 0],
             files |-> Put(disk, FileKey(w.session_name, idx), <<>>)]

\* _rotate_file on working storage.
_rotate_file(w, disk) == _rotate_file_io(w, disk, NoFault)

\* RotatingJSONLWriter.__init__: it returns the writer whether or not the
\* first segment could be opened.
NewWriter_io(session_name, max_file_size, disk, io) ==
    _rotate_file_io([session_name |-> session_name,
                     max_file_size |-> max_file_size,
                     _current_file |-> FALSE,
                     _current_file_index |-> 0,
                     _current_file_size |-> 0], disk, io)

\* RotatingJSONLWriter.__init__ on working storage.
NewWriter(session_name, max_file_size, disk) ==
    NewWriter_io(session_name, max_file_size, disk, NoFault)

\* A write that checks the size after writing: the record goes to the
\* current segment and the writer rotates once the segment is over the bound.
write_rotate_after(w, disk, payload) ==
    IF ~w._current_file
    THEN [ok |-> FALSE, writer |-> w, files |-> disk]
    ELSE LET size == line_size(payload)
             key == FileKey(w.session_name, w._current_file_index)
             written == [disk EXCEPT ![key] = Append(@, payload)]
             wrote == [w EXCEPT !._current_file_size = @ + size]
             rot == IF wrote._current_file_size > w.max_file_size
                    THEN _rotate_file(wrote, written)
                    ELSE [writer |-> wrote, files |-> written]
         IN [ok |-> TRUE, writer |-> rot.writer, files |-> rot.files]

\* RotatingJSONLWriter.write.  When file.write raises, the except clause
\* logs and returns False: nothing is appended and the size counter stays.
write_io(w, disk, payload, io) ==
    IF ~w._current_file
    THEN [ok |-> FALSE, writer |-> w, files |-> disk]
    ELSE LET size == line_size(payload)
             rot == IF w._current_file_size + size > w.max_file_size
                    THEN _rotate_file_io(w, disk, io)
                    ELSE [writer |-> w, files |-> disk]
             key == FileKey(rot.writer.session_name, rot.writer._current_file_index)
         IN IF ~rot.writer._current_file \/ io.write
            THEN [ok |-> FALSE, writer |-> rot.writer, files |-> rot.files]
            ELSE [ok |-> TRUE,
                  writer |-> [rot.writer EXCEPT
                                 !._current_file_size = @ + size],
                  files |-> [rot.files EXCEPT ![key] = Append(@, payload)]]

\* RotatingJSONLWriter.write on working storage.
write(w, disk, payload) == write_io(w, disk, payload, NoFault)

\* RotatingJSONLWriter.close
close(w) == [w EXCEPT !._current_file = FALSE]

\* sorted(base_dir.glob(f"{session_name}_*.jsonl")): the files of a session
\* in the string order of their names.
RECURSIVE SortedOrdinals(_)
SortedOrdinals(S) ==
    IF S = {} THEN <<>>
    ELSE LET m == CHOOSE x \in S :
                      \A y \in S \ {x} : NameLess(FileName(x), FileName(y))
         IN <<m>> \o SortedOrdinals(S \ {m})

SessionFiles(disk, session_name) ==
    LET ords == SortedOrdinals({k[2] : k \in {q \in DOMAIN disk : q[1] = session_name}})
    IN [i \in 1..Len(ords) |-> FileKey(session_name, ords[i])]

\* The parse loop of a segment file: one <<index, packet>> per line.
ParseFile(lines) ==
    [i \in 1..Len(lines) |-> <<lines[i].index, from_json(lines[i].data)>>]

\* The lines of a file that json.loads accepts, in order.
RECURSIVE WellFormed(_)
WellFormed(lines) ==
    IF lines = <<>> THEN <<>>
    ELSE (IF Malformed(Head(lines)) THEN <<>> ELSE <<Head(lines)>>)
         \o WellFormed(Tail(lines))

\* read_all_jsonl_packets, the loop over the files: a file that cannot be
\* opened is skipped, a line that cannot be parsed is skipped.
RECURSIVE ConcatFiles(_, _)
ConcatFiles(disk, keys) ==
    IF keys = <<>> THEN <<>>
    ELSE (IF Head(keys) \in DOMAIN disk
          THEN ParseFile(WellFormed(disk[Head(keys)])) ELSE <<>>)
         \o ConcatFiles(disk, Tail(keys))

\* read_all_jsonl_packets under a storage condition: the glob lists the
\* session's files, open sees the readable ones.
read_all_jsonl_packets_io(disk, session_name, io) ==
    SortByIndex(ConcatFiles(Readable(disk, io), SessionFiles(disk, session_name)))

\* read_all_jsonl_packets with every file readable.
read_all_jsonl_packets(disk, session_name) ==
    read_all_jsonl_packets_io(disk, session_name, NoFault)

(***************************************************************************)
(* PacketCaptureApp (src/src/app.py).  Nested handlers are operators from  *)
(* the application state (a record of the fields they touch) to the new    *)
(* application state.                                                      *)
(***************************************************************************)
Self ==
    [packet_queue |-> packet_queue,
     captured_packets |-> captured_packets,
     _packet_cache |-> _packet_cache,
     _packet_cache_max_size |-> _packet_cache_max_size,
     _ui_cache_size |-> _ui_cache_size,
     _packet_global_index |-> _packet_global_index,
     _file_cache |-> _file_cache,
     _file_cache_access_order |-> _file_cache_access_order,
     _capture_session_name |-> _capture_session_name,
     _jsonl_writer |-> _jsonl_writer,
     files |-> files,
     _page_size |-> _page_size,
     _current_page |-> _current_page,
     _new_packets_since_page |-> _new_packets_since_page,
     _pending_page_reload |-> _pending_page_reload,
     _auto_page_enabled |-> _auto_page_enabled,
     _batch_size_setting |-> _batch_size_setting,
     _display_filter_enabled |-> _display_filter_enabled,
     _save_raw_packets |-> _save_raw_packets,
     packet_table |-> packet_table,
     page_label |-> page_label,
     io |-> NoFault]

\* The application state after a handler is the record st.
Becomes(st) ==
    /\ packet_queue' = st.packet_queue
    /\ captured_packets' = st.captured_packets
    /\ _packet_cache' = st._packet_cache
    /\ _packet_cache_max_size' = st._packet_cache_max_size
    /\ _ui_cache_size' = st._ui_cache_size
    /\ _packet_global_index' = st._packet_global_index
    /\ _file_cache' = st._file_cache
    /\ _file_cache_access_order' = st._file_cache_access_order
    /\ _capture_session_name' = st._capture_session_name
    /\ _jsonl_writer' = st._jsonl_writer
    /\ files' = st.files
    /\ _page_size' = st._page_size
    /\ _current_page' = st._current_page
    /\ _new_packets_since_page' = st._new_packets_since_page
    /\ _pending_page_reload' = st._pending_page_reload
    /\ _auto_page_enabled' = st._auto_page_enabled
    /\ _batch_size_setting' = st._batch_size_setting
    /\ _display_filter_enabled' = st._display_filter_enabled
    /\ _save_raw_packets' = st._save_raw_packets
    /\ packet_table' = st.packet_table
    /\ page_label' = st.page_label

\* The text of the page size line edit, page_size_input.text(): a number, or
\* text int() rejects.  No handler is connected to the line edit, so the text
\* is whatever the user has typed by the time _on_load_page reads it: it is
\* an input of every handler that reaches _on_load_page.
Text(n) == [ok |-> TRUE, val |-> n]
BadText == [ok |-> FALSE, val |-> 0]

\* The page label: "记录: -", or "记录: s → e (页 p/t)" with an optional "新: n".
NoRecordsLabel == [start |-> -1, end |-> -1, page |-> 0, total_pages |-> 0, new |-> 0]

\* _update_page_label
_update_page_label(st, has_range, start_idx, end_idx) ==
    LET last_index == Max(-1, st._packet_global_index - 1)
        total == last_index + 1
        total_pages == TotalPages(total, st._page_size)
        start == IF has_range THEN start_idx
                 ELSE PageStart(st._current_page, st._page_size)
        end == IF has_range THEN end_idx
               ELSE PageEnd(st._current_page, st._page_size, last_index)
    IN IF last_index < 0
       THEN [st EXCEPT !.page_label = NoRecordsLabel]
       ELSE [st EXCEPT !.page_label =
                [start |-> start, end |-> end, page |-> st._current_page,
                 total_pages |-> total_pages,
                 new |-> IF st._new_packets_since_page # 0
                            /\ st._current_page < total_pages
                         THEN st._new_packets_since_page ELSE 0]]

\* An eviction loop that drops the newest entry of the LRU order
\* (pop() for pop(0)).
RECURSIVE EvictNewest(_, _)
EvictNewest(cache, order) ==
    IF Cardinality(DOMAIN cache) > FileCacheMaxFiles
    THEN EvictNewest(DropKey(cache, order[Len(order)]),
                     SubSeq(order, 1, Len(order) - 1))
    ELSE [_file_cache |-> cache, _file_cache_access_order |-> order]

\* The LRU eviction loop of _read_packets_with_cache.
RECURSIVE Evict(_, _)
Evict(cache, order) ==
    IF Cardinality(DOMAIN cache) > FileCacheMaxFiles
    THEN Evict(DropKey(cache, Head(order)), Tail(order))
    ELSE [_file_cache |-> cache, _file_cache_access_order |-> order]

\* A per-file body that caches an empty list for a file it cannot open or
\* parse.
ReadOneFile_cache_failure(key, disk, cache, order) ==
    IF key \in DOMAIN cache
    THEN [packets |-> cache[key],
          _file_cache |-> cache,
          _file_cache_access_order |->
              Append(IF InSeq(order, key) THEN Remove(order, key) ELSE order, key)]
    ELSE LET failed == \/ key \notin DOMAIN disk
                       \/ \E n \in 1..Len(disk[key]) : Malformed(disk[key][n])
             packets == IF failed THEN <<>> ELSE ParseFile(disk[key])
             ev == Evict(Put(cache, key, packets), Append(order, key))
         IN [packets |-> packets,
             _file_cache |-> ev._file_cache,
             _file_cache_access_order |-> ev._file_cache_access_order]

\* The per-file body of the loop of _read_packets_with_cache: a hit moves the
\* key to the end of the LRU order; a miss parses the file and caches it.
\* disk holds the files open can open; when open or a line's json.loads
\* raises, the except clause moves on to the next file: the file gives no
\* records and is not cached.
ReadOneFile(key, disk, cache, order) ==
    IF key \in DOMAIN cache
    THEN [packets |-> cache[key],
          _file_cache |-> cache,
          _file_cache_access_order |->
              Append(IF InSeq(order, key) THEN Remove(order, key) ELSE order, key)]
    ELSE IF \/ key \notin DOMAIN disk
            \/ \E n \in 1..Len(disk[key]) : Malformed(disk[key][n])
    THEN [packets |-> <<>>,
          _file_cache |-> cache,
          _file_cache_access_order |-> order]
    ELSE LET packets == ParseFile(disk[key])
             ev == Evict(Put(cache, key, packets), Append(order, key))
         IN [packets |-> packets,
             _file_cache |-> ev._file_cache,
             _file_cache_access_order |-> ev._file_cache_access_order]

RECURSIVE ReadLoop(_, _, _, _, _, _, _)
ReadLoop(keys, disk, cache, order, start_idx, end_idx, results) ==
    IF keys = <<>>
    THEN [results |-> results, _file_cache |-> cache,
          _file_cache_access_order |-> order]
    ELSE LET one == ReadOneFile(Head(keys), disk, cache, order)
         IN ReadLoop(Tail(keys), disk, one._file_cache,
                     one._file_cache_access_order, start_idx, end_idx,
                     results \o FilterRange(one.packets, start_idx, end_idx))

\* _read_packets_with_cache
_read_packets_with_cache(st, session_name, start_idx, end_idx) ==
    ReadLoop(SessionFiles(st.files, session_name), Readable(st.files, st.io),
             st._file_cache, st._file_cache_access_order, start_idx, end_idx,
             <<>>)

\* _packet_matches_filter, for the one pattern of the model: "a".
_packet_matches_filter(pkt) == pkt.summary = "a"

RECURSIVE NotInMemory(_, _)
NotInMemory(disk_packets, memory_indices) ==
    IF disk_packets = <<>> THEN <<>>
    ELSE (IF Head(disk_packets)[1] \notin memory_indices
          THEN <<Head(disk_packets)>> ELSE <<>>)
         \o NotInMemory(Tail(disk_packets), memory_indices)

RECURSIVE Matching(_)
Matching(rows) ==
    IF rows = <<>> THEN <<>>
    ELSE (IF _packet_matches_filter(Head(rows)[2]) THEN <<Head(rows)>> ELSE <<>>)
         \o Matching(Tail(rows))

\* _load_page_by_index
_load_page_by_index(st, start_idx, end_idx) ==
    LET memory == FilterRange(st.captured_packets, start_idx, end_idx)
        memory_indices == Indices(memory)
        needed_count == end_idx - start_idx + 1
        from_disk == Len(memory) < needed_count /\ st._capture_session_name # 0
        rd == IF from_disk
              THEN _read_packets_with_cache(st, st._capture_session_name,
                                            start_idx, end_idx)
              ELSE [results |-> <<>>, _file_cache |-> st._file_cache,
                    _file_cache_access_order |-> st._file_cache_access_order]
        results == SortByIndex(memory \o NotInMemory(rd.results, memory_indices))
        rows == IF st._display_filter_enabled THEN Matching(results) ELSE results
    IN _update_page_label(
           [st EXCEPT !._file_cache = rd._file_cache,
                      !._file_cache_access_order = rd._file_cache_access_order,
                      !.packet_table = rows],
           TRUE, start_idx, end_idx)

\* A goto-latest that clamps the current page into the new range instead
\* of moving to the last page.
_on_load_page_clamped(st, text) ==
    LET size == IF text.ok THEN Max(1, text.val) ELSE DefaultPageSize
        s1 == [st EXCEPT !._page_size = size]
        last_index == s1._packet_global_index - 1
        total == last_index + 1
        total_pages == TotalPages(total, size)
        page == Min(st._current_page, total_pages)
        start == PageStart(page, size)
        end == PageEnd(page, size, last_index)
    IN IF last_index < 0
       THEN _update_page_label(
                [s1 EXCEPT !.packet_table = <<>>, !._current_page = 1],
                FALSE, 0, 0)
       ELSE _load_page_by_index(
                [s1 EXCEPT !._current_page = page,
                           !._new_packets_since_page =
                               IF page = total_pages THEN 0 ELSE @],
                start, end)

\* _on_load_page
_on_load_page(st, text) ==
    LET size == IF text.ok THEN Max(1, text.val) ELSE DefaultPageSize
        s1 == [st EXCEPT !._page_size = size]
        last_index == s1._packet_global_index - 1
        total == last_index + 1
        total_pages == TotalPages(total, size)
        start == PageStart(total_pages, size)
        end == PageEnd(total_pages, size, last_index)
    IN IF last_index < 0
       THEN _update_page_label(
                [s1 EXCEPT !.packet_table = <<>>, !._current_page = 1],
                FALSE, 0, 0)
       ELSE _load_page_by_index(
                [s1 EXCEPT !._current_page = total_pages,
                           !._new_packets_since_page = 0],
                start, end)

\* A prev without the check against the first page.
_on_prev_page_unchecked(st) ==
    LET page == st._current_page - 1
        last_index == st._packet_global_index - 1
        s1 == [st EXCEPT !._current_page = page]
        total_pages == TotalPages(last_index + 1, st._page_size)
        s2 == IF page = total_pages
              THEN [s1 EXCEPT !._new_packets_since_page = 0] ELSE s1
    IN IF last_index < 0 THEN s1
       ELSE _load_page_by_index(s2, PageStart(page, st._page_size),
                                PageEnd(page, st._page_size, last_index))

\* _on_prev_page
_on_prev_page(st) ==
    IF st._current_page > 1
    THEN LET page == st._current_page - 1
             last_index == st._packet_global_index - 1
             s1 == [st EXCEPT !._current_page = page]
             total_pages == TotalPages(last_index + 1, st._page_size)
             s2 == IF page = total_pages
                   THEN [s1 EXCEPT !._new_packets_since_page = 0] ELSE s1
         IN IF last_index < 0 THEN s1
            ELSE _load_page_by_index(s2, PageStart(page, st._page_size),
                                     PageEnd(page, st._page_size, last_index))
    ELSE st

\* A next without the check against the last page.
_on_next_page_unbounded(st) ==
    LET last_index == st._packet_global_index - 1
        total_pages == TotalPages(last_index + 1, st._page_size)
        page == st._current_page + 1
        s1 == [st EXCEPT !._current_page = page]
        s2 == IF page = total_pages
              THEN [s1 EXCEPT !._new_packets_since_page = 0] ELSE s1
    IN IF last_index < 0 THEN st
       ELSE _load_page_by_index(s2, PageStart(page, st._page_size),
                                PageEnd(page, st._page_size, last_index))

\* A next that keeps the pending-new counter on reaching the last page.
_on_next_page_keep_counter(st) ==
    LET last_index == st._packet_global_index - 1
        total_pages == TotalPages(last_index + 1, st._page_size)
        page == st._current_page + 1
        s1 == [st EXCEPT !._current_page = page]
    IN IF last_index < 0 THEN st
       ELSE IF st._current_page < total_pages
       THEN _load_page_by_index(s1, PageStart(page, st._page_size),
                                PageEnd(page, st._page_size, last_index))
       ELSE st

\* _on_next_page
_on_next_page(st) ==
    LET last_index == st._packet_global_index - 1
        total_pages == TotalPages(last_index + 1, st._page_size)
        page == st._current_page + 1
        s1 == [st EXCEPT !._current_page = page]
        s2 == IF page = total_pages
              THEN [s1 EXCEPT !._new_packets_since_page = 0] ELSE s1
    IN IF last_index < 0 THEN st
       ELSE IF st._current_page < total_pages
       THEN _load_page_by_index(s2, PageStart(page, st._page_size),
                                PageEnd(page, st._page_size, last_index))
       ELSE st

\* deque.append on a deque with maxlen: a full deque drops its leftmost item.
deque_append(dq, maxlen, item) ==
    IF maxlen = 0 THEN <<>>
    ELSE IF Len(dq) >= maxlen
    THEN Append(SubSeq(dq, Len(dq) - maxlen + 2, Len(dq)), item)
    ELSE Append(dq, item)

\* deque(items, maxlen=n): the last n items.
deque_of(items, maxlen) ==
    IF Len(items) > maxlen
    THEN SubSeq(items, Len(items) - maxlen + 1, Len(items))
    ELSE items

MinKey(f) == CHOOSE k \in DOMAIN f : \A j \in DOMAIN f : k <= j

\* _drain_packet_queue, the write of one record to the JSONL writer.
DrainWrite(st, index, packet) ==
    IF st._jsonl_writer = <<>> THEN st
    ELSE LET data == to_json(packet)
             stored == IF st._save_raw_packets THEN data ELSE pop_raw(data)
             payload == [index |-> index, data |-> stored]
             wr == write_io(st._jsonl_writer[1], st.files, payload, st.io)
         IN [st EXCEPT !._jsonl_writer = <<wr.writer>>, !.files = wr.files]

\* _drain_packet_queue, the memory cache management for one record.
DrainCache(st, index, packet) ==
    LET cache == IF Cardinality(DOMAIN st._packet_cache) >= st._packet_cache_max_size
                    /\ DOMAIN st._packet_cache # {}
                 THEN DropKey(st._packet_cache, MinKey(st._packet_cache))
                 ELSE st._packet_cache
    IN [st EXCEPT !._packet_cache = Put(cache, index, packet),
                  !.captured_packets =
                      deque_append(st.captured_packets, st._ui_cache_size,
                                   <<index, packet>>)]

\* A page decision whose auto-advance test compares the current page with
\* the new page count instead of the previous one.
DrainPageOffByOne(st, index) ==
    LET last_index == index
        total == last_index + 1
        prev_total == last_index
        prev_total_pages == IF prev_total > 0
                            THEN TotalPages(prev_total, st._page_size) ELSE 1
        total_pages == TotalPages(total, st._page_size)
        current_page_start == PageStart(st._current_page, st._page_size)
        current_page_end == PageEnd(st._current_page, st._page_size, last_index)
    IN IF st._auto_page_enabled /\ st._current_page = total_pages
          /\ total_pages > prev_total_pages
       THEN [st EXCEPT !._current_page = total_pages,
                       !._pending_page_reload = TRUE]
       ELSE IF st._current_page = total_pages
       THEN IF current_page_start <= index /\ index <= current_page_end
            THEN [st EXCEPT !._pending_page_reload = TRUE]
            ELSE st
       ELSE IF st._current_page < total_pages
       THEN _update_page_label(
                [st EXCEPT !._new_packets_since_page = @ + 1], FALSE, 0, 0)
       ELSE st

\* A page decision that auto-advances from any page, not only the last.
DrainPageAnyPage(st, index) ==
    LET last_index == index
        total == last_index + 1
        prev_total == last_index
        prev_total_pages == IF prev_total > 0
                            THEN TotalPages(prev_total, st._page_size) ELSE 1
        total_pages == TotalPages(total, st._page_size)
        current_page_start == PageStart(st._current_page, st._page_size)
        current_page_end == PageEnd(st._current_page, st._page_size, last_index)
    IN IF st._auto_page_enabled /\ total_pages > prev_total_pages
       THEN [st EXCEPT !._current_page = total_pages,
                       !._pending_page_reload = TRUE]
       ELSE IF st._current_page = total_pages
       THEN IF current_page_start <= index /\ index <= current_page_end
            THEN [st EXCEPT !._pending_page_reload = TRUE]
            ELSE st
       ELSE IF st._current_page < total_pages
       THEN _update_page_label(
                [st EXCEPT !._new_packets_since_page = @ + 1], FALSE, 0, 0)
       ELSE st

\* _drain_packet_queue, the page refresh decision for one record.
DrainPage(st, index) ==
    LET last_index == index
        total == last_index + 1
        prev_total == last_index
        prev_total_pages == IF prev_total > 0
                            THEN TotalPages(prev_total, st._page_size) ELSE 1
        total_pages == TotalPages(total, st._page_size)
        current_page_start == PageStart(st._current_page, st._page_size)
        current_page_end == PageEnd(st._current_page, st._page_size, last_index)
    IN IF st._auto_page_enabled /\ st._current_page = prev_total_pages
          /\ total_pages > prev_total_pages
       THEN [st EXCEPT !._current_page = total_pages,
                       !._pending_page_reload = TRUE]
       ELSE IF st._current_page = total_pages
       THEN IF current_page_start <= index /\ index <= current_page_end
            THEN [st EXCEPT !._pending_page_reload = TRUE]
            ELSE st
       ELSE IF st._current_page < total_pages
       THEN _update_page_label(
                [st EXCEPT !._new_packets_since_page = @ + 1], FALSE, 0, 0)
       ELSE st

\* _drain_packet_queue, the body of the loop for one dequeued packet.
\* A drain step that numbers a record only when it has been written.
DrainOne_count_written(st) ==
    LET packet == Head(st.packet_queue)
        index == st._packet_global_index
        s1 == [st EXCEPT !.packet_queue = Tail(@)]
        s2 == DrainWrite(s1, index, packet)
        s3 == DrainCache(s2, index, packet)
        s4 == DrainPage(s3, index)
    IN [s4 EXCEPT !._packet_global_index = IF s2.files # s1.files THEN @ + 1
                                                                 ELSE @]

DrainOne(st) ==
    LET packet == Head(st.packet_queue)
        index == st._packet_global_index
        s1 == [st EXCEPT !.packet_queue = Tail(@)]
        s2 == DrainWrite(s1, index, packet)
        s3 == DrainCache(s2, index, packet)
        s4 == DrainPage(s3, index)
    IN [s4 EXCEPT !._packet_global_index = @ + 1]

RECURSIVE DrainLoop(_, _)
DrainLoop(st, batch_count) ==
    IF batch_count < st._batch_size_setting /\ st.packet_queue # <<>>
    THEN DrainLoop(DrainOne(st), batch_count + 1)
    ELSE st

\* _drain_packet_queue, the whole pass.
DrainPass(st, text) ==
    LET s1 == DrainLoop(st, 0)
    IN IF s1._pending_page_reload
       THEN _on_load_page([s1 EXCEPT !._pending_page_reload = FALSE], text)
       ELSE s1

\* _get_packet_by_global_index: the state after the lookup and the packet
\* found (<<>> is None).
_get_packet_by_global_index(st, index) ==
    IF index \in DOMAIN st._packet_cache
    THEN [st |-> st, packet |-> <<st._packet_cache[index]>>]
    ELSE IF st._capture_session_name # 0
    THEN LET rd == _read_packets_with_cache(st, st._capture_session_name,
                                            index, index)
         IN [st |-> [st EXCEPT !._file_cache = rd._file_cache,
                               !._file_cache_access_order =
                                   rd._file_cache_access_order],
             packet |-> IF rd.results # <<>> THEN <<rd.results[1][2]>> ELSE <<>>]
    ELSE [st |-> st, packet |-> <<>>]

\* A resize whose map keeps its lowest indices instead of its highest.
ApplySettings_oldest_kept(st, auto_page, batch_size, cache_size) ==
    LET s1 == [st EXCEPT !._auto_page_enabled = auto_page,
                         !._batch_size_setting = batch_size]
        keys == DOMAIN st._packet_cache
        kept == {k \in keys : Cardinality({j \in keys : j < k}) < cache_size}
    IN IF cache_size # st._ui_cache_size
       THEN [s1 EXCEPT !._ui_cache_size = cache_size,
                       !._packet_cache_max_size = cache_size,
                       !.captured_packets = deque_of(st.captured_packets, cache_size),
                       !._packet_cache =
                           IF Cardinality(keys) > cache_size
                           THEN [k \in kept |-> st._packet_cache[k]]
                           ELSE st._packet_cache]
       ELSE s1

\* open_settings, once the dialog is accepted.
ApplySettings(st, auto_page, batch_size, cache_size) ==
    LET s1 == [st EXCEPT !._auto_page_enabled = auto_page,
                         !._batch_size_setting = batch_size]
        keys == DOMAIN st._packet_cache
        kept == {k \in keys : Cardinality({j \in keys : j > k}) < cache_size}
    IN IF cache_size # st._ui_cache_size
       THEN [s1 EXCEPT !._ui_cache_size = cache_size,
                       !._packet_cache_max_size = cache_size,
                       !.captured_packets = deque_of(st.captured_packets, cache_size),
                       !._packet_cache =
                           IF Cardinality(keys) > cache_size
                           THEN [k \in kept |-> st._packet_cache[k]]
                           ELSE st._packet_cache]
       ELSE s1

RECURSIVE LoadLoop(_, _, _)
\* load_capture, the loop over the loaded packets.
LoadLoop(st, packets, idx) ==
    IF idx >= Len(packets) THEN st
    ELSE LoadLoop(
             [st EXCEPT !.captured_packets =
                            deque_append(@, st._ui_cache_size,
                                         <<idx, packets[idx + 1]>>),
                        !._packet_cache = Put(@, idx, packets[idx + 1]),
                        !._packet_global_index = idx + 1],
             packets, idx + 1)

\* load_capture, once the file has been read.
LoadPackets(st, packets, text) ==
    _on_load_page(
        LoadLoop([st EXCEPT !.packet_table = <<>>,
                            !.captured_packets = <<>>,
                            !._packet_cache = <<>>,
                            !._packet_global_index = 0],
                 packets, 0),
        text)

\* A stop that clears the file cache and leaves its LRU order standing.
StopCapture_keep_order(st) ==
    [st EXCEPT !._jsonl_writer = <<>>,
               !.packet_queue = <<>>,
               !._file_cache = <<>>]

\* stop_capture, the part on the GUI thread after CaptureManager.stop.
StopCapture(st) ==
    [st EXCEPT !._jsonl_writer = <<>>,
               !.packet_queue = <<>>,
               !._file_cache = <<>>,
               !._file_cache_access_order = <<>>]

\* _on_capture_started: the session name and the writer.
CaptureStarted(st, session_name) ==
    LET nw == NewWriter_io(session_name, MaxFileSize, st.files, st.io)
    IN [st EXCEPT !._capture_session_name = session_name,
                  !._jsonl_writer = <<nw.writer>>,
                  !.files = nw.files]

(***************************************************************************)
(* CaptureManager and ResourceMonitor as constructed.  The handlers of the *)
(* application see the two through phase, sniffer and stop_thread; their   *)
(* own fields and threads move in the specifications of the components.    *)
(***************************************************************************)
\* The caller of CaptureManager before its first call.
IdleCaller ==
    [pc |-> "idle", op |-> "none", filter_expr |-> "None", iface |-> "None",
     raised |-> FALSE]

\* CaptureManager.__init__ and ResourceMonitor.__init__
ComponentsInit ==
    /\ _sniffer = 0
    /\ _filter_expr = "None"
    /\ _iface = "None"
    /\ sniffers = <<>>
    /\ caller = IdleCaller
    /\ stop_sniffer_threads = <<>>
    /\ _thread = 0
    /\ _stop_event = FALSE
    /\ run_threads = <<>>
    /\ monitor_caller = "idle"

CaptureManagerUnchanged ==
    UNCHANGED <<_sniffer, _filter_expr, _iface, sniffers, caller,
                stop_sniffer_threads>>

ResourceMonitorUnchanged ==
    UNCHANGED <<_thread, _stop_event, run_threads, monitor_caller>>

ComponentsUnchanged == CaptureManagerUnchanged /\ ResourceMonitorUnchanged

(***************************************************************************)
(* The state after PacketCaptureApp.__init__.                              *)
(***************************************************************************)
Init ==
    /\ packet_queue = <<>>
    /\ captured_packets = <<>>
    /\ _packet_cache = <<>>
    /\ _packet_cache_max_size = MaxCacheSize
    /\ _ui_cache_size = MaxCacheSize
    /\ _packet_global_index = 0
    /\ _file_cache = <<>>
    /\ _file_cache_access_order = <<>>
    /\ _capture_session_name = 0
    /\ _jsonl_writer = <<>>
    /\ files = <<>>
    /\ _page_size = DefaultPageSize
    /\ _current_page = 1
    /\ _new_packets_since_page = 0
    /\ _pending_page_reload = FALSE
    /\ _auto_page_enabled = TRUE
    /\ _batch_size_setting = MaxBatch
    /\ _display_filter_enabled = FALSE
    /\ _save_raw_packets \in BOOLEAN
    /\ packet_table = <<>>
    /\ page_label = NoRecordsLabel
    /\ phase = "idle"
    /\ sniffer = FALSE
    /\ stop_thread = FALSE
    /\ ComponentsInit

ControlUnchanged ==
    /\ UNCHANGED <<phase, sniffer, stop_thread>>
    /\ ComponentsUnchanged

RECURSIVE TotalLines(_, _)
TotalLines(disk, keys) ==
    IF keys = {} THEN 0
    ELSE LET k == CHOOSE x \in keys : TRUE
         IN Len(disk[k]) + TotalLines(disk, keys \ {k})

SessionsUsed == {k[1] : k \in DOMAIN files}

\* Texts the user types: "0" (max(1, 0) is page size 1), "2" .. MaxPageSize,
\* and text int() rejects (page size 100).
PageSizeTexts == {Text(0), BadText} \cup {Text(n) : n \in 2..MaxPageSize}

LoadedFile(n) == [i \in 1..n |-> ParsedPacket("L", "none")]

LoadedFiles == {LoadedFile(n) : n \in 0..MaxLoad}

(***************************************************************************)
(* Capture control.                                                        *)
(***************************************************************************)
\* start_capture: the start button is disabled and the start thread spawned.
start_capture(max_sessions) ==
    /\ phase = "idle"
    /\ Cardinality(SessionsUsed) < max_sessions
    /\ phase' = "starting"
    /\ UNCHANGED <<sniffer, stop_thread>>
    /\ ComponentsUnchanged
    /\ Becomes(Self)

\* _start_capture_thread: CaptureManager.start succeeds and posts
\* _on_capture_started, or fails and _on_capture_error re-enables the button.
_start_capture_thread ==
    /\ phase = "starting"
    /\ \/ phase' = "started" /\ sniffer' = TRUE
       \/ phase' = "idle" /\ sniffer' = sniffer
    /\ UNCHANGED stop_thread
    /\ ComponentsUnchanged
    /\ Becomes(Self)

_on_capture_started ==
    /\ phase = "started"
    /\ phase' = "running"
    /\ UNCHANGED <<sniffer, stop_thread>>
    /\ ComponentsUnchanged
    /\ Becomes(CaptureStarted(Self, Cardinality(SessionsUsed) + 1))

\* stop_capture: CaptureManager.stop spawns stop_sniffer and returns at once.
stop_capture ==
    /\ phase = "running"
    /\ phase' = "idle"
    /\ stop_thread' = TRUE
    /\ UNCHANGED sniffer
    /\ ComponentsUnchanged
    /\ Becomes(StopCapture(Self))

\* stop_sniffer, in its own thread: it stops the sniffer self._sniffer refers
\* to when it runs, or fails on None and stops nothing.
stop_sniffer ==
    /\ stop_thread
    /\ stop_thread' = FALSE
    /\ \/ sniffer' = FALSE
       \/ sniffer' = sniffer
    /\ UNCHANGED phase
    /\ ComponentsUnchanged
    /\ Becomes(Self)

\* A capture callback that processes the packet where it is called, in the
\* capture thread, instead of handing it to the GUI thread.
_on_packet_captured_direct(summary, max_records) ==
    /\ sniffer
    /\ Len(packet_queue) < MaxQueue
    /\ _packet_global_index + Len(packet_queue) < max_records
    /\ TotalLines(files, DOMAIN files) + Len(packet_queue) < max_records
    /\ Becomes(DrainPass([Self EXCEPT !.packet_queue =
                    Append(@, ParsedPacket(summary,
                                IF _save_raw_packets THEN "r" ELSE "none"))],
                         BadText))
    /\ ControlUnchanged

\* _on_packet_captured in the capture thread, then _on_packet_captured_slot.
_on_packet_captured(summary, max_records) ==
    /\ sniffer
    /\ Len(packet_queue) < MaxQueue
    /\ _packet_global_index + Len(packet_queue) < max_records
    /\ TotalLines(files, DOMAIN files) + Len(packet_queue) < max_records
    /\ Becomes([Self EXCEPT !.packet_queue =
                    Append(@, ParsedPacket(summary,
                                IF _save_raw_packets THEN "r" ELSE "none"))])
    /\ ControlUnchanged

(***************************************************************************)
(* GUI handlers.                                                           *)
(***************************************************************************)
\* The queue timer: a pass over an empty queue changes nothing.
_drain_packet_queue(text) ==
    /\ packet_queue # <<>>
    /\ Becomes(DrainPass(Self, text))
    /\ ControlUnchanged

LoadPageClicked(text) ==
    /\ Becomes(_on_load_page(Self, text))
    /\ ControlUnchanged

PrevPageClicked ==
    /\ Becomes(_on_prev_page(Self))
    /\ ControlUnchanged

NextPageClicked ==
    /\ Becomes(_on_next_page(Self))
    /\ ControlUnchanged

\* _on_display_filter_changed: empty text, a valid pattern, or a regex error.
_on_display_filter_changed(filter, text) ==
    /\ \/ /\ filter = "empty"
          /\ Becomes(_on_load_page([Self EXCEPT !._display_filter_enabled = FALSE],
                                   text))
       \/ /\ filter = "valid"
          /\ Becomes(_on_load_page([Self EXCEPT !._display_filter_enabled = TRUE],
                                   text))
       \/ /\ filter = "invalid"
          /\ Becomes([Self EXCEPT !._display_filter_enabled = FALSE])
    /\ ControlUnchanged

open_settings(auto_page, batch_size, cache_size) ==
    /\ Becomes(ApplySettings(Self, auto_page, batch_size, cache_size))
    /\ ControlUnchanged

load_capture(packets, text) ==
    /\ Becomes(LoadPackets(Self, packets, text))
    /\ ControlUnchanged

\* _on_packet_selected: the selected row's index is looked up.
_on_packet_selected(row) ==
    /\ row \in 1..Len(packet_table)
    /\ Becomes(_get_packet_by_global_index(Self, packet_table[row][1]).st)
    /\ ControlUnchanged

(***************************************************************************)
(* The next-state relation for an environment env: the packets the sniffer *)
(* delivers, the texts the user types, the settings the user chooses and   *)
(* the capture files the user loads, with the number of capture sessions   *)
(* and of records that bound a run.                                        *)
(***************************************************************************)
NextOf(env) ==
    \/ start_capture(env.sessions)
    \/ _start_capture_thread
    \/ _on_capture_started
    \/ stop_capture
    \/ stop_sniffer
    \/ \E summary \in env.summaries : _on_packet_captured(summary, env.records)
    \/ \E text \in env.texts : _drain_packet_queue(text)
    \/ \E text \in env.texts : LoadPageClicked(text)
    \/ PrevPageClicked
    \/ NextPageClicked
    \/ \E filter \in env.filters, text \in env.texts :
           _on_display_filter_changed(filter, text)
    \/ \E auto_page \in env.auto_page, batch_size \in env.batch_size,
          cache_size \in env.cache_size :
           open_settings(auto_page, batch_size, cache_size)
    \/ \E packets \in env.loads, text \in env.texts : load_capture(packets, text)
    \/ \E row \in 1..MaxPageSize : _on_packet_selected(row)

\* Every input the bounds allow.
FullEnv ==
    [sessions |-> MaxSessions,
     records |-> MaxIndex,
     summaries |-> Summaries,
     texts |-> PageSizeTexts,
     filters |-> {"empty", "valid", "invalid"},
     auto_page |-> BOOLEAN,
     batch_size |-> 1..MaxBatch,
     cache_size |-> 1..MaxCacheSize,
     loads |-> LoadedFiles]

\* The pagination environment: one capture session of one kind of packet,
\* every page size text, the auto-page setting switched on and off with the
\* other settings as constructed, loads of an empty and of a full file, and
\* a display filter that is cleared or rejected but never set.
PageEnv ==
    [FullEnv EXCEPT !.sessions = 1,
                    !.summaries = {"a"},
                    !.filters = {"empty", "invalid"},
                    !.loads = {LoadedFile(0), LoadedFile(MaxLoad)},
                    !.batch_size = {MaxBatch},
                    !.cache_size = {MaxCacheSize}]

\* The storage environment: one capture session of packets of two sizes,
\* page sizes 1 and 100, every cache size, loads of a full file, auto-page
\* as constructed.
StoreEnv ==
    [FullEnv EXCEPT !.sessions = 1,
                    !.records = MaxStored,
                    !.texts = {Text(0), BadText},
                    !.filters = {"empty", "invalid"},
                    !.auto_page = {TRUE},
                    !.batch_size = {MaxBatch},
                    !.loads = {LoadedFile(MaxLoad)}]

\* The Hot Buffer environment: one capture session of one kind of packet up
\* to the full record bound, the smallest cache size chosen in the settings,
\* page sizes 1 and 100, loads of a full file.
BufferEnv ==
    [FullEnv EXCEPT !.sessions = 1,
                    !.summaries = {"a"},
                    !.texts = {Text(0), BadText},
                    !.filters = {"empty", "invalid"},
                    !.auto_page = {TRUE},
                    !.batch_size = {MaxBatch},
                    !.cache_size = {1},
                    !.loads = {LoadedFile(MaxLoad)}]

Next == NextOf(FullEnv)

Spec == Init /\ [][Next]_vars

NextPage == NextOf(PageEnv)

InitPage == Init /\ ~_save_raw_packets

NextStore == NextOf(StoreEnv)

SpecStore == InitPage /\ [][NextStore]_vars

SpecPage == InitPage /\ [][NextPage]_vars

NextBuffer == NextOf(BufferEnv)

SpecBuffer == InitPage /\ [][NextBuffer]_vars

(***************************************************************************)
(* RotatingJSONLWriter on its own: a writer constructed with a threshold   *)
(* of 1 .. MaxFileSize for session 1, then written to and closed by its    *)
(* caller.  The caller numbers the records 0, 1, 2, ... as the drain does. *)
(***************************************************************************)
InitWriter ==
    /\ packet_queue = <<>>
    /\ captured_packets = <<>>
    /\ _packet_cache = <<>>
    /\ _packet_cache_max_size = MaxCacheSize
    /\ _ui_cache_size = MaxCacheSize
    /\ _packet_global_index = 0
    /\ _file_cache = <<>>
    /\ _file_cache_access_order = <<>>
    /\ _capture_session_name = 1
    /\ \E max_file_size \in 1..MaxFileSize :
           LET new == NewWriter(1, max_file_size, <<>>)
           IN /\ _jsonl_writer = <<new.writer>>
              /\ files = new.files
    /\ _page_size = DefaultPageSize
    /\ _current_page = 1
    /\ _new_packets_since_page = 0
    /\ _pending_page_reload = FALSE
    /\ _auto_page_enabled = TRUE
    /\ _batch_size_setting = MaxBatch
    /\ _display_filter_enabled = FALSE
    /\ _save_raw_packets = FALSE
    /\ packet_table = <<>>
    /\ page_label = NoRecordsLabel
    /\ phase = "running"
    /\ sniffer = FALSE
    /\ stop_thread = FALSE
    /\ ComponentsInit

WriterUnchanged ==
    UNCHANGED <<packet_queue, captured_packets, _packet_cache,
                _packet_cache_max_size, _ui_cache_size, _file_cache,
                _file_cache_access_order, _capture_session_name, _page_size,
                _current_page, _new_packets_since_page, _pending_page_reload,
                _auto_page_enabled, _batch_size_setting,
                _display_filter_enabled, _save_raw_packets, packet_table,
                page_label, phase, sniffer, stop_thread>>
    /\ ComponentsUnchanged

\* The record the caller hands to write for a packet of the given summary.
Payload(index, summary) ==
    [index |-> index, data |-> pop_raw(to_json(ParsedPacket(summary, "none")))]

\* writer.write({"index": index, "data": data}) by the writer's caller.
Writer_write(summary) ==
    /\ _packet_global_index < MaxWrites
    /\ LET wr == write(_jsonl_writer[1], files,
                       Payload(_packet_global_index, summary))
       IN /\ _jsonl_writer' = <<wr.writer>>
          /\ files' = wr.files
          /\ _packet_global_index' = _packet_global_index + 1
    /\ WriterUnchanged

\* writer.close() by the writer's caller.
Writer_close ==
    /\ _jsonl_writer[1]._current_file
    /\ _jsonl_writer' = <<close(_jsonl_writer[1])>>
    /\ UNCHANGED <<files, _packet_global_index>>
    /\ WriterUnchanged

NextWriter ==
    \/ \E summary \in Summaries : Writer_write(summary)
    \/ Writer_close

SpecWriter == InitWriter /\ [][NextWriter]_vars

(***************************************************************************)
(* Reading under storage faults: one capture session of one kind of packet *)
(* with its drain passes and page loads, a segment line that gets          *)
(* corrupted from outside, and page loads during which a segment file      *)
(* cannot be opened.                                                       *)
(***************************************************************************)
\* One line of a segment file is overwritten from outside the program; at
\* most one line of the directory is corrupted.
corrupt_line(key, n) ==
    /\ key \in DOMAIN files
    /\ n \in 1..Len(files[key])
    /\ \A k \in DOMAIN files : \A m \in 1..Len(files[k]) : ~Malformed(files[k][m])
    /\ files' = [files EXCEPT ![key][n] = MalformedLine]
    /\ UNCHANGED <<packet_queue, captured_packets, _packet_cache,
                   _packet_cache_max_size, _ui_cache_size, _packet_global_index,
                   _file_cache, _file_cache_access_order, _capture_session_name,
                   _jsonl_writer, _page_size, _current_page,
                   _new_packets_since_page, _pending_page_reload,
                   _auto_page_enabled, _batch_size_setting,
                   _display_filter_enabled, _save_raw_packets, packet_table,
                   page_label>>
    /\ ControlUnchanged

\* The load-page button while the files of unreadable cannot be opened.
LoadPageClicked_io(text, unreadable) ==
    /\ unreadable # {}
    /\ unreadable \subseteq DOMAIN files
    /\ Becomes(_on_load_page(
                   [Self EXCEPT !.io = [NoFault EXCEPT !.unreadable = unreadable]],
                   text))
    /\ ControlUnchanged

NextRead ==
    \/ start_capture(1)
    \/ _start_capture_thread
    \/ _on_capture_started
    \/ stop_capture
    \/ stop_sniffer
    \/ _on_packet_captured("a", MaxIndex)
    \/ \E text \in BufferEnv.texts : _drain_packet_queue(text)
    \/ \E text \in BufferEnv.texts : LoadPageClicked(text)
    \/ \E key \in DOMAIN files : \E n \in 1..MaxIndex : corrupt_line(key, n)
    \/ \E text \in BufferEnv.texts : \E key \in DOMAIN files :
           LoadPageClicked_io(text, {key})

SpecRead == InitPage /\ [][NextRead]_vars

(***************************************************************************)
(* Writing under storage faults.  A fault lasts for the handler it is the  *)
(* input of: file.write raises (disk full), or open(path, "w") raises      *)
(* (permission denied, directory gone).                                    *)
(***************************************************************************)
IoFaults ==
    {NoFault, [NoFault EXCEPT !.write = TRUE], [NoFault EXCEPT !.open = TRUE]}

\* _on_capture_started under a storage condition.
_on_capture_started_io(io) ==
    /\ phase = "started"
    /\ phase' = "running"
    /\ UNCHANGED <<sniffer, stop_thread>>
    /\ ComponentsUnchanged
    /\ Becomes(CaptureStarted([Self EXCEPT !.io = io],
                              Cardinality(SessionsUsed) + 1))

\* The queue timer under a storage condition.
_drain_packet_queue_io(text, io) ==
    /\ packet_queue # <<>>
    /\ Becomes(DrainPass([Self EXCEPT !.io = io], text))
    /\ ControlUnchanged

\* One capture session under storage faults: capture control, the capture
\* thread and the drain.
NextFault ==
    \/ start_capture(1)
    \/ _start_capture_thread
    \/ \E io \in IoFaults : _on_capture_started_io(io)
    \/ stop_capture
    \/ stop_sniffer
    \/ \E summary \in Summaries : _on_packet_captured(summary, MaxIndex)
    \/ \E io \in IoFaults : _drain_packet_queue_io(BadText, io)

SpecFault == InitPage /\ [][NextFault]_vars

\* writer.write by the writer's caller under a storage condition; the caller
\* numbers every record, written or not, as the drain does.
Writer_write_io(summary, io) ==
    /\ _packet_global_index < MaxWrites
    /\ LET wr == write_io(_jsonl_writer[1], files,
                          Payload(_packet_global_index, summary), io)
       IN /\ _jsonl_writer' = <<wr.writer>>
          /\ files' = wr.files
          /\ _packet_global_index' = _packet_global_index + 1
    /\ WriterUnchanged

NextWriterFault ==
    \E summary \in Summaries : \E io \in IoFaults : Writer_write_io(summary, io)

SpecWriterFault == InitWriter /\ [][NextWriterFault]_vars

\* One capture session under storage faults with the batch size chosen in
\* the settings dialog.
NextBatch ==
    \/ NextFault
    \/ \E batch_size \in 1..MaxBatch : open_settings(TRUE, batch_size, MaxCacheSize)

SpecBatch == InitPage /\ [][NextBatch]_vars

(***************************************************************************)
(* CaptureManager on its own: one thread calls start, stop and restart;    *)
(* every stop that finds a sniffer spawns a stop_sniffer thread, which     *)
(* runs interleaved with the caller.  Each step reads or writes one        *)
(* attribute of the manager, as the interpreter does.                      *)
(***************************************************************************)
MaxSniffers == 2
MaxStopThreads == 2

Filters == {"tcp", "udp"}
Ifaces == {"eth0"}

\* The application, for the steps of its components.
AppUnchanged ==
    UNCHANGED <<packet_queue, captured_packets, _packet_cache,
                _packet_cache_max_size, _ui_cache_size, _packet_global_index,
                _file_cache, _file_cache_access_order, _capture_session_name,
                _jsonl_writer, files, _page_size, _current_page,
                _new_packets_since_page, _pending_page_reload,
                _auto_page_enabled, _batch_size_setting,
                _display_filter_enabled, _save_raw_packets, packet_table,
                page_label, phase, sniffer, stop_thread>>

\* A step of CaptureManager leaves everything else alone.
ManagerStep == AppUnchanged /\ ResourceMonitorUnchanged

\* CaptureManager.is_running
is_running == _sniffer # 0 /\ sniffers[_sniffer].running

\* current_filter() and current_interface()
current_filter == _filter_expr
current_interface == _iface

\* Where the caller goes when stop() returns: back to its own code, or on
\* to start() inside restart().
AfterStop == IF caller.op = "restart" THEN "start" ELSE "idle"

\* The caller calls start(filter_expr, iface).
CaptureManager_start(filter_expr, iface) ==
    /\ caller.pc = "idle"
    /\ Len(sniffers) < MaxSniffers
    /\ caller' = [pc |-> "start", op |-> "start", filter_expr |-> filter_expr,
                  iface |-> iface, raised |-> FALSE]
    /\ UNCHANGED <<_sniffer, _filter_expr, _iface, sniffers, stop_sniffer_threads>>
    /\ ManagerStep

\* The caller calls stop().
CaptureManager_stop ==
    /\ caller.pc = "idle"
    /\ Len(stop_sniffer_threads) < MaxStopThreads
    /\ caller' = [IdleCaller EXCEPT !.pc = "stop", !.op = "stop"]
    /\ UNCHANGED <<_sniffer, _filter_expr, _iface, sniffers, stop_sniffer_threads>>
    /\ ManagerStep

\* The caller calls restart(filter_expr, iface): stop(), then start().
CaptureManager_restart(filter_expr, iface) ==
    /\ caller.pc = "idle"
    /\ Len(sniffers) < MaxSniffers
    /\ Len(stop_sniffer_threads) < MaxStopThreads
    /\ caller' = [pc |-> "stop", op |-> "restart", filter_expr |-> filter_expr,
                  iface |-> iface, raised |-> FALSE]
    /\ UNCHANGED <<_sniffer, _filter_expr, _iface, sniffers, stop_sniffer_threads>>
    /\ ManagerStep

\* stop: `if self._sniffer is not None:` and the start of the stop_sniffer
\* thread; called_for is the sniffer the manager referred to at the call.
stop_spawn ==
    /\ caller.pc = "stop"
    /\ IF _sniffer # 0
       THEN /\ stop_sniffer_threads' =
                   Append(stop_sniffer_threads,
                          [pc |-> "read", called_for |-> _sniffer, target |-> 0])
            /\ caller' = [caller EXCEPT !.pc = "stop_clear_sniffer"]
       ELSE /\ UNCHANGED stop_sniffer_threads
            /\ caller' = [caller EXCEPT !.pc = AfterStop]
    /\ UNCHANGED <<_sniffer, _filter_expr, _iface, sniffers>>
    /\ ManagerStep

\* stop: the three assignments after stop_thread.start().
stop_clear ==
    /\ \/ /\ caller.pc = "stop_clear_sniffer"
          /\ _sniffer' = 0
          /\ caller' = [caller EXCEPT !.pc = "stop_clear_filter"]
          /\ UNCHANGED <<_filter_expr, _iface>>
       \/ /\ caller.pc = "stop_clear_filter"
          /\ _filter_expr' = "None"
          /\ caller' = [caller EXCEPT !.pc = "stop_clear_iface"]
          /\ UNCHANGED <<_sniffer, _iface>>
       \/ /\ caller.pc = "stop_clear_iface"
          /\ _iface' = "None"
          /\ caller' = [caller EXCEPT !.pc = AfterStop]
          /\ UNCHANGED <<_sniffer, _filter_expr>>
    /\ UNCHANGED <<sniffers, stop_sniffer_threads>>
    /\ ManagerStep

\* start: `if self.is_running: return`
start_check ==
    /\ caller.pc = "start"
    /\ caller' = [caller EXCEPT !.pc = IF is_running THEN "idle"
                                                    ELSE "start_filter"]
    /\ UNCHANGED <<_sniffer, _filter_expr, _iface, sniffers, stop_sniffer_threads>>
    /\ ManagerStep

\* start: self._filter_expr = filter_expr, then self._iface = iface.
start_assign ==
    /\ \/ /\ caller.pc = "start_filter"
          /\ _filter_expr' = caller.filter_expr
          /\ caller' = [caller EXCEPT !.pc = "start_iface"]
          /\ UNCHANGED _iface
       \/ /\ caller.pc = "start_iface"
          /\ _iface' = caller.iface
          /\ caller' = [caller EXCEPT !.pc = "start_create"]
          /\ UNCHANGED _filter_expr
    /\ UNCHANGED <<_sniffer, sniffers, stop_sniffer_threads>>
    /\ ManagerStep

\* start: self._sniffer = AsyncSniffer(...)
start_create ==
    /\ caller.pc = "start_create"
    /\ sniffers' = Append(sniffers, [running |-> FALSE, stop_called |-> FALSE])
    /\ _sniffer' = Len(sniffers) + 1
    /\ caller' = [caller EXCEPT !.pc = "start_sniffer"]
    /\ UNCHANGED <<_filter_expr, _iface, stop_sniffer_threads>>
    /\ ManagerStep

\* start: self._sniffer.start().  On None the attribute lookup raises; the
\* except clause sets self._sniffer to None and raises again.
start_sniffer ==
    /\ caller.pc = "start_sniffer"
    /\ IF _sniffer # 0
       THEN /\ sniffers' = [sniffers EXCEPT ![_sniffer].running = TRUE]
            /\ caller' = [caller EXCEPT !.pc = "idle"]
            /\ UNCHANGED _sniffer
       ELSE /\ _sniffer' = 0
            /\ caller' = [caller EXCEPT !.pc = "idle", !.raised = TRUE]
            /\ UNCHANGED sniffers
    /\ UNCHANGED <<_filter_expr, _iface, stop_sniffer_threads>>
    /\ ManagerStep

\* stop_sniffer in thread t: self._sniffer is looked up when the thread
\* runs; on None the call raises and the finally clause is next.
stop_sniffer_read(t) ==
    /\ t \in DOMAIN stop_sniffer_threads
    /\ stop_sniffer_threads[t].pc = "read"
    /\ stop_sniffer_threads' =
           [stop_sniffer_threads EXCEPT
               ![t].target = _sniffer,
               ![t].pc = IF _sniffer # 0 THEN "stop" ELSE "finally_sniffer"]
    /\ UNCHANGED <<_sniffer, _filter_expr, _iface, sniffers, caller>>
    /\ ManagerStep

\* stop_sniffer in thread t: .stop() on the sniffer it looked up.
stop_sniffer_stop(t) ==
    /\ t \in DOMAIN stop_sniffer_threads
    /\ stop_sniffer_threads[t].pc = "stop"
    /\ sniffers' = [sniffers EXCEPT
                        ![stop_sniffer_threads[t].target] =
                            [running |-> FALSE, stop_called |-> TRUE]]
    /\ stop_sniffer_threads' =
           [stop_sniffer_threads EXCEPT ![t].pc = "finally_sniffer"]
    /\ UNCHANGED <<_sniffer, _filter_expr, _iface, caller>>
    /\ ManagerStep

\* stop_sniffer in thread t: the three assignments of the finally clause.
stop_sniffer_finally(t) ==
    /\ t \in DOMAIN stop_sniffer_threads
    /\ \/ /\ stop_sniffer_threads[t].pc = "finally_sniffer"
          /\ _sniffer' = 0
          /\ stop_sniffer_threads' =
                 [stop_sniffer_threads EXCEPT ![t].pc = "finally_filter"]
          /\ UNCHANGED <<_filter_expr, _iface>>
       \/ /\ stop_sniffer_threads[t].pc = "finally_filter"
          /\ _filter_expr' = "None"
          /\ stop_sniffer_threads' =
                 [stop_sniffer_threads EXCEPT ![t].pc = "finally_iface"]
          /\ UNCHANGED <<_sniffer, _iface>>
       \/ /\ stop_sniffer_threads[t].pc = "finally_iface"
          /\ _iface' = "None"
          /\ stop_sniffer_threads' =
                 [stop_sniffer_threads EXCEPT ![t].pc = "done"]
          /\ UNCHANGED <<_sniffer, _filter_expr>>
    /\ UNCHANGED <<sniffers, caller>>
    /\ ManagerStep

NextCapture ==
    \/ \E filter_expr \in Filters, iface \in Ifaces :
           CaptureManager_start(filter_expr, iface)
    \/ CaptureManager_stop
    \/ \E filter_expr \in Filters, iface \in Ifaces :
           CaptureManager_restart(filter_expr, iface)
    \/ stop_spawn
    \/ stop_clear
    \/ start_check
    \/ start_assign
    \/ start_create
    \/ start_sniffer
    \/ \E t \in 1..MaxStopThreads : stop_sniffer_read(t)
    \/ \E t \in 1..MaxStopThreads : stop_sniffer_stop(t)
    \/ \E t \in 1..MaxStopThreads : stop_sniffer_finally(t)

SpecCapture == InitPage /\ [][NextCapture]_vars

(***************************************************************************)
(* ResourceMonitor on its own: one thread calls start and stop, the _run   *)
(* threads it created sample in between.                                   *)
(***************************************************************************)
MaxRunThreads == 3

\* A step of ResourceMonitor leaves everything else alone.
MonitorStep == AppUnchanged /\ CaptureManagerUnchanged

\* threading.Thread.is_alive for _run thread t
is_alive(t) == run_threads[t] # "exited"

\* ResourceMonitor.start; with a live thread it returns at once.
ResourceMonitor_start ==
    /\ monitor_caller = "idle"
    /\ ~(_thread # 0 /\ is_alive(_thread))
    /\ Len(run_threads) < MaxRunThreads
    /\ _stop_event' = FALSE
    /\ run_threads' = Append(run_threads, "wait")
    /\ _thread' = Len(run_threads) + 1
    /\ UNCHANGED monitor_caller
    /\ MonitorStep

\* ResourceMonitor.stop up to the join: with a live thread the event is set
\* and the caller waits in join; otherwise the thread is forgotten at once.
ResourceMonitor_stop ==
    /\ monitor_caller = "idle"
    /\ _thread # 0
    /\ IF is_alive(_thread)
       THEN /\ _stop_event' = TRUE
            /\ monitor_caller' = "join"
            /\ UNCHANGED _thread
       ELSE /\ _thread' = 0
            /\ UNCHANGED <<_stop_event, monitor_caller>>
    /\ UNCHANGED run_threads
    /\ MonitorStep

\* ResourceMonitor.stop from the join on: join(timeout) returns because the
\* thread has ended or because the timeout has run out, then the thread is
\* forgotten.
join_returns(timed_out) ==
    /\ monitor_caller = "join"
    /\ timed_out = is_alive(_thread)
    /\ _thread' = 0
    /\ monitor_caller' = "idle"
    /\ UNCHANGED <<_stop_event, run_threads>>
    /\ MonitorStep

\* _run in thread t: `while not self._stop_event.wait(self.interval)`
_run_wait(t) ==
    /\ t \in DOMAIN run_threads
    /\ run_threads[t] = "wait"
    /\ run_threads' = [run_threads EXCEPT
                           ![t] = IF _stop_event THEN "exited" ELSE "sample"]
    /\ UNCHANGED <<_thread, _stop_event, monitor_caller>>
    /\ MonitorStep

\* _run in thread t: the sample is taken and handed to the callback.
_run_sample(t) ==
    /\ t \in DOMAIN run_threads
    /\ run_threads[t] = "sample"
    /\ run_threads' = [run_threads EXCEPT ![t] = "wait"]
    /\ UNCHANGED <<_thread, _stop_event, monitor_caller>>
    /\ MonitorStep

NextMonitor ==
    \/ ResourceMonitor_start
    \/ ResourceMonitor_stop
    \/ \E timed_out \in BOOLEAN : join_returns(timed_out)
    \/ \E t \in 1..MaxRunThreads : _run_wait(t)
    \/ \E t \in 1..MaxRunThreads : _run_sample(t)

SpecMonitor == InitPage /\ [][NextMonitor]_vars

(***************************************************************************)
(* Properties.                                                             *)
(***************************************************************************)
\* The last page, max(1, total_pages), of the stream as it stands.
LastPage == Max(1, TotalPages(_packet_global_index, _page_size))

\* The key of the segment the writer has open, as a set (empty: none open).
ActiveSegment ==
    IF _jsonl_writer # <<>> /\ _jsonl_writer[1]._current_file
    THEN {FileKey(_jsonl_writer[1].session_name,
                  _jsonl_writer[1]._current_file_index)}
    ELSE {}

\* The lines of a session, segment after segment in ordinal order.
RECURSIVE SessionLines(_, _)
SessionLines(disk, keys) ==
    IF keys = <<>> THEN <<>>
    ELSE disk[Head(keys)] \o SessionLines(disk, Tail(keys))

\* The stream is the capture session's own: its segments hold the records
\* 0 .. N-1 in write order and the next index is N.
CaptureStream(session) ==
    LET lines == SessionLines(files, SessionFiles(files, session))
    IN /\ _packet_global_index = Len(lines)
       /\ \A i \in 1..Len(lines) : lines[i].index = i - 1

DrainStep == \E text \in PageSizeTexts : _drain_packet_queue(text)

\* C1: round trip.  When the segments of a session hold N >= 1 records with
\* the indices 0..N-1 in write order and nothing else, a range read of [0, N-1] returns exactly
\* those N records in ascending index order, by _read_packets_with_cache as
\* by read_all_jsonl_packets.
C1_RoundTrip ==
    \A session \in SessionsUsed :
        LET lines == SessionLines(files, SessionFiles(files, session))
            N == Len(lines)
        IN (N >= 1 /\ CaptureStream(session))
           => /\ _read_packets_with_cache(Self, session, 0, N - 1).results
                 = ParseFile(lines)
              /\ read_all_jsonl_packets(files, session) = ParseFile(lines)

RECURSIVE SumPageSizes(_, _, _)
SumPageSizes(page, page_size, total) ==
    IF page = 0 THEN 0
    ELSE (PageEnd(page, page_size, total - 1) - PageStart(page, page_size) + 1)
         + SumPageSizes(page - 1, page_size, total)

\* C2: page partition law.  For the page size P and the record count T > 0
\* of every reachable state, the pages 1..ceil(T/P) start at 0, each page
\* starts right after the one before it ends, none is empty, the last one
\* ends at T-1, and their sizes sum to T.
C2_PagePartition ==
    LET P == _page_size
        T == _packet_global_index
        n == TotalPages(T, P)
    IN T > 0 =>
        /\ P > 0
        /\ n >= 1
        /\ (n - 1) * P < T /\ T <= n * P
        /\ PageStart(1, P) = 0
        /\ \A p \in 1..(n - 1) : PageStart(p + 1, P) = PageEnd(p, P, T - 1) + 1
        /\ \A p \in 1..n : PageStart(p, P) <= PageEnd(p, P, T - 1)
        /\ PageEnd(n, P, T - 1) = T - 1
        /\ SumPageSizes(n, P, T) = T

\* C2 witness: three records in pages of two, the label showing the partial
\* last page 2..2 of 2 pages.
C2_Witness ==
    /\ _page_size = 2
    /\ _packet_global_index = 3
    /\ page_label = [start |-> 2, end |-> 2, page |-> 2, total_pages |-> 2, new |-> 0]

\* C3: the segment open for writing is never a key of the file cache, in
\* every state of a capture session whose stream is its own.
C3_ActiveSegmentNotCached ==
    \A key \in ActiveSegment :
        CaptureStream(key[1]) => key \notin DOMAIN _file_cache

\* C4: active-segment visibility.  In every state of a capture session whose
\* stream is its own, every record in the segment open for writing is
\* returned by a range read of [i, i] for its index i.
C4_ActiveSegmentVisible ==
    \A key \in ActiveSegment :
        \A n \in 1..Len(files[key]) :
            LET i == files[key][n].index
            IN CaptureStream(key[1]) =>
               InSeq(_read_packets_with_cache(Self, key[1], i, i).results,
                     <<i, from_json(files[key][n].data)>>)

\* C5: auto-advance enabled.  A drain pass that starts on the last page with
\* auto-page enabled and appends a record starting a new page ends on the
\* new last page with the pending-new counter 0.
C5_AutoAdvance ==
    [][(/\ _auto_page_enabled
        /\ _current_page = LastPage
        /\ TotalPages(_packet_global_index', _page_size)
               > TotalPages(_packet_global_index, _page_size)
        /\ DrainStep)
       => (/\ _current_page' = LastPage'
           /\ _new_packets_since_page' = 0)]_vars

\* C5 witness: auto-page enabled and pages of one record; the last page, 2 or
\* later, shows the captured record that started it, nothing is pending, and
\* a queued record will start the next page.
C5_Witness ==
    /\ _auto_page_enabled
    /\ _page_size = 1
    /\ _current_page = LastPage
    /\ _current_page >= 2
    /\ _new_packets_since_page = 0
    /\ packet_queue # <<>>
    /\ page_label.page = _current_page
    /\ packet_table = <<<<_packet_global_index - 1, ParsedPacket("a", "none")>>>>

\* The records of a drain pass that fall on a page after the current one.
AppendedAfterPage ==
    Cardinality({i \in _packet_global_index..(_packet_global_index' - 1) :
                    i > PageEnd(_current_page, _page_size, i)})

\* C6: auto-advance disabled.  A drain pass that starts on the last page
\* with auto-page disabled, and under which the page size stays as it was,
\* leaves the current page number as it was and adds to the pending-new
\* counter one for each appended record on a later page.
C6_AutoAdvanceDisabled ==
    [][(/\ ~_auto_page_enabled
        /\ _current_page = LastPage
        /\ _page_size' = _page_size
        /\ DrainStep)
       => (/\ _current_page' = _current_page
           /\ _new_packets_since_page'
                  = _new_packets_since_page + AppendedAfterPage)]_vars

\* C7: browsing history.  A drain pass that starts on a page before the last
\* one adds one to the pending-new counter for each record it appends and
\* leaves the current page, the page size and the rows shown as they were.
C7_BrowsingHistory ==
    [][(/\ _current_page < LastPage
        /\ DrainStep)
       => (/\ _packet_global_index' > _packet_global_index
           /\ _new_packets_since_page' = _new_packets_since_page
                  + (_packet_global_index' - _packet_global_index)
           /\ _current_page' = _current_page
           /\ _page_size' = _page_size
           /\ packet_table' = packet_table
           /\ _pending_page_reload' = FALSE)]_vars

\* C7 witness: on a history page with two records counted as pending, the
\* label showing them.
C7_Witness ==
    /\ _current_page < LastPage
    /\ _new_packets_since_page >= 2
    /\ page_label.page = _current_page
    /\ page_label.new >= 1

PageInRange ==
    /\ 1 <= _current_page
    /\ _current_page <= LastPage
    /\ page_label # NoRecordsLabel => page_label.page <= page_label.total_pages

\* C8: the current page stays in range.  In every state 1 <= _current_page
\* <= max(1, total_pages) and the label never shows a page beyond the total;
\* prev and next, applied in that state, move by exactly one inside the range
\* and change nothing at its bounds.
C8_PageInRange ==
    LET prev == _on_prev_page(Self)
        next == _on_next_page(Self)
    IN /\ PageInRange
       /\ IF _current_page > 1
          THEN prev._current_page = _current_page - 1
          ELSE prev = Self
       /\ IF _current_page < LastPage
          THEN next._current_page = _current_page + 1
          ELSE next = Self

\* C8 witness: a page strictly inside the range with nothing pending, which
\* only prev or next reach.
C8_Witness ==
    /\ 1 < _current_page
    /\ _current_page < LastPage
    /\ _new_packets_since_page = 0
    /\ page_label.page = _current_page

\* C9: in every state, goto-latest on a non-empty stream sets the current
\* page to the last page and the pending-new counter to 0; next onto the
\* last page resets the counter, next or prev onto any other page leaves it
\* as it was.
C9_GotoLatest ==
    LET prev == _on_prev_page(Self)
        next == _on_next_page(Self)
    IN /\ \A text \in PageSizeTexts :
              LET latest == _on_load_page(Self, text)
              IN _packet_global_index > 0 =>
                     /\ latest._current_page
                            = TotalPages(_packet_global_index, latest._page_size)
                     /\ latest._new_packets_since_page = 0
       /\ next._current_page # _current_page =>
              IF next._current_page = LastPage
              THEN next._new_packets_since_page = 0
              ELSE next._new_packets_since_page = _new_packets_since_page
       /\ prev._current_page # _current_page =>
              IF prev._current_page = LastPage
              THEN prev._new_packets_since_page = 0
              ELSE prev._new_packets_since_page = _new_packets_since_page

\* C9 witness: page 1 of 4 loaded and shown with one record pending: the
\* record arrived on page 2 and the counter survived the move to page 1.
C9_Witness ==
    /\ _page_size = 1
    /\ _packet_global_index = 4
    /\ _current_page = 1
    /\ _new_packets_since_page = 1
    /\ page_label = [start |-> 0, end |-> 0, page |-> 1, total_pages |-> 4, new |-> 1]

\* C10: a page-size change snaps to latest.  Every step that changes
\* _page_size ends on the last page under the new size, with the label
\* showing that page; so no step onto or on a history page changes the page
\* size.
C10_PageSizeSnaps ==
    [][_page_size' # _page_size
       => (/\ _current_page' = LastPage'
           /\ _packet_global_index' > 0 =>
                  /\ page_label'.page = _current_page'
                  /\ page_label'.total_pages = LastPage')]_vars

\* C10 witness: a page size other than the constructed one, on the last of
\* several pages.
C10_Witness ==
    /\ _page_size = 2
    /\ _current_page = LastPage
    /\ _current_page >= 2

\* The packets stored under index i in the segments of a session.
Stored(session, i) ==
    LET lines == SessionLines(files, SessionFiles(files, session))
    IN {from_json(lines[n].data) :
            n \in {m \in 1..Len(lines) : lines[m].index = i}}

\* The Hot Buffer holds records of the capture stream only: every entry of
\* the deque and of the map is the record stored under its index.
HotBufferOfStream(session) ==
    /\ \A n \in 1..Len(captured_packets) :
           captured_packets[n][2] \in Stored(session, captured_packets[n][1])
    /\ \A i \in DOMAIN _packet_cache : _packet_cache[i] \in Stored(session, i)

\* The indices the Hot Buffer holds after T pushes at capacity K.
HotRange == Max(0, _packet_global_index - _ui_cache_size)
                .. (_packet_global_index - 1)

\* C11: Hot Buffer eviction.  While a capture session's stream is its own
\* and the Hot Buffer holds only records pushed from it, a full buffer of
\* capacity K holds, in the deque and in the map, exactly the K highest
\* indices written, and a point read of any index the map has dropped
\* returns the record stored under that index.
C11_HotBufferEviction ==
    \A key \in ActiveSegment :
        (/\ key[1] = _capture_session_name
         /\ CaptureStream(key[1])
         /\ HotBufferOfStream(key[1]))
        => /\ Cardinality(DOMAIN _packet_cache) = _ui_cache_size =>
                  /\ DOMAIN _packet_cache = HotRange
                  /\ Indices(captured_packets) = HotRange
           /\ \A i \in (0 .. (_packet_global_index - 1)) \ DOMAIN _packet_cache :
                  LET read == _get_packet_by_global_index(Self, i).packet
                  IN read # <<>> /\ read[1] \in Stored(key[1], i)

\* C12: Hot Buffer lock-step.  In every state the indices of the deque
\* captured_packets are the keys of the map _packet_cache, and both hold
\* the same record under each index.
C12_HotBufferLockStep ==
    /\ Indices(captured_packets) = DOMAIN _packet_cache
    /\ \A n \in 1..Len(captured_packets) :
           /\ captured_packets[n][1] \in DOMAIN _packet_cache
           /\ _packet_cache[captured_packets[n][1]] = captured_packets[n][2]

\* C13: Hot Buffer capacity bound.  In every state the deque and the map
\* hold at most _ui_cache_size records each; when the stream is a loaded
\* file of N records, they hold the indices N-capacity .. N-1.
C13_HotBufferCapacity ==
    /\ Len(captured_packets) <= _ui_cache_size
    /\ Cardinality(DOMAIN _packet_cache) <= _ui_cache_size
    /\ (/\ captured_packets # <<>>
        /\ \A n \in 1..Len(captured_packets) : captured_packets[n][2].summary = "L")
       => /\ Indices(captured_packets) = HotRange
          /\ DOMAIN _packet_cache = HotRange

\* The last n elements of a sequence.
LastN(s, n) == SubSeq(s, Len(s) - Min(n, Len(s)) + 1, Len(s))

NoDuplicates(s) == \A i, j \in 1..Len(s) : s[i] = s[j] => i = j

\* C14: File Cache strict LRU.  In every state the cache holds at most
\* FileCacheMaxFiles files and the LRU order lists exactly its keys, once
\* each.  Reading a file in that state: a hit returns the cached records,
\* leaves the cache as it is and moves the key to the end of the order; a
\* miss parses the file from disk, appends the key, and from a full cache
\* evicts exactly the head of the order, after which that file is a miss.
\* A read over a session of n segments leaves the last min(capacity, n)
\* segments cached, in access order.
C14_FileCacheLRU ==
    /\ Cardinality(DOMAIN _file_cache) <= FileCacheMaxFiles
    /\ NoDuplicates(_file_cache_access_order)
    /\ {_file_cache_access_order[n] : n \in 1..Len(_file_cache_access_order)}
           = DOMAIN _file_cache
    /\ \A key \in DOMAIN files :
           LET one == ReadOneFile(key, files, _file_cache,
                                  _file_cache_access_order)
               order == one._file_cache_access_order
               oldest == Head(_file_cache_access_order)
           IN IF key \in DOMAIN _file_cache
              THEN /\ one.packets = _file_cache[key]
                   /\ one._file_cache = _file_cache
                   /\ order = Append(Remove(_file_cache_access_order, key), key)
              ELSE /\ one.packets = ParseFile(files[key])
                   /\ IF Cardinality(DOMAIN _file_cache) = FileCacheMaxFiles
                      THEN /\ DOMAIN one._file_cache
                                  = (DOMAIN _file_cache \ {oldest}) \cup {key}
                           /\ oldest \notin DOMAIN one._file_cache
                           /\ order = Append(Tail(_file_cache_access_order), key)
                      ELSE /\ DOMAIN one._file_cache
                                  = DOMAIN _file_cache \cup {key}
                           /\ order = Append(_file_cache_access_order, key)
                   /\ one._file_cache[key] = ParseFile(files[key])
                   /\ \A k \in DOMAIN one._file_cache \ {key} :
                          one._file_cache[k] = _file_cache[k]
    /\ \A session \in SessionsUsed :
           LET rd == _read_packets_with_cache(Self, session, 0, MaxIndex)
               kept == LastN(SessionFiles(files, session), FileCacheMaxFiles)
           IN /\ rd._file_cache_access_order = kept
              /\ DOMAIN rd._file_cache = {kept[n] : n \in 1..Len(kept)}

\* C14 witness: a session of three segments has been read through the cache
\* of two files: the first segment was evicted, the other two are cached in
\* access order.
C14_Witness ==
    /\ DOMAIN files = {FileKey(1, 1), FileKey(1, 2), FileKey(1, 3)}
    /\ _file_cache_access_order = <<FileKey(1, 2), FileKey(1, 3)>>
    /\ DOMAIN _file_cache = {FileKey(1, 2), FileKey(1, 3)}

\* The byte size of a segment: the sum of its lines' sizes.
RECURSIVE SegmentSize(_)
SegmentSize(lines) ==
    IF lines = <<>> THEN 0 ELSE line_size(Head(lines)) + SegmentSize(Tail(lines))

\* C15: segment soft size bound.  In every state of a writer every segment
\* is at most max_file_size plus the size of one of its records, and the
\* writer's size counter is the size of the open segment.  A write in that
\* state of a record that does not fit (current size + record size >
\* max_file_size) leaves the old segment as it is and makes the record the
\* first of segment ordinal + 1; a record that fits is appended to the open
\* segment and no segment is created.
C15_SegmentSoftBound ==
    \A n \in DOMAIN _jsonl_writer :
        LET w == _jsonl_writer[n]
            active == FileKey(w.session_name, w._current_file_index)
            next == FileKey(w.session_name, w._current_file_index + 1)
        IN /\ \A key \in DOMAIN files :
                  \/ SegmentSize(files[key]) <= w.max_file_size
                  \/ \E i \in 1..Len(files[key]) :
                         SegmentSize(files[key])
                             <= w.max_file_size + line_size(files[key][i])
           /\ w._current_file =>
                  /\ w._current_file_size = SegmentSize(files[active])
                  /\ \A summary \in Summaries :
                         LET payload == Payload(_packet_global_index, summary)
                             wr == write(w, files, payload)
                         IN /\ wr.ok
                            /\ IF w._current_file_size + line_size(payload)
                                      > w.max_file_size
                               THEN /\ wr.files[active] = files[active]
                                    /\ DOMAIN wr.files = DOMAIN files \cup {next}
                                    /\ wr.files[next] = <<payload>>
                                    /\ wr.writer._current_file_index
                                           = w._current_file_index + 1
                               ELSE /\ wr.files[active]
                                           = Append(files[active], payload)
                                    /\ DOMAIN wr.files = DOMAIN files
                                    /\ wr.writer._current_file_index
                                           = w._current_file_index

\* C15 witness: a record that did not fit the first segment was written to
\* the second, which is over the threshold by less than that record.
C15_Witness ==
    /\ _jsonl_writer # <<>>
    /\ FileKey(1, 2) \in DOMAIN files
    /\ files[FileKey(1, 1)] # <<>>
    /\ Len(files[FileKey(1, 2)]) = 1
    /\ SegmentSize(files[FileKey(1, 2)]) > _jsonl_writer[1].max_file_size

\* C16: rotation in ordinal order without empty segments.  The segments of
\* a session have the ordinals 1, 2, 3, ... without a gap, their names are
\* PadWidth digits wide, the enumeration by sorted name is the enumeration
\* by ordinal, once a record has been written no segment is empty, and the
\* segments one after the other hold the records 0, 1, 2, ... in the order
\* they were written.
C16_OrdinalOrder ==
    \A session \in SessionsUsed :
        LET keys == SessionFiles(files, session)
            lines == SessionLines(files, keys)
        IN /\ {k[2] : k \in {q \in DOMAIN files : q[1] = session}} = 1..Len(keys)
           /\ \A n \in 1..Len(keys) :
                  /\ keys[n] = FileKey(session, n)
                  /\ Len(FileName(n)) = PadWidth
           /\ lines # <<>> => \A n \in 1..Len(keys) : files[keys[n]] # <<>>
           /\ \A i \in 1..Len(lines) : lines[i].index = i - 1

\* C17: per-session index discipline.  In every state the records persisted
\* in the segments of a session, read segment after segment in write order,
\* carry the indices 0, 1, 2, ...: unique, strictly increasing, starting at
\* 0 and without a gap.
C17_SessionIndexDiscipline ==
    \A session \in SessionsUsed :
        LET lines == SessionLines(files, SessionFiles(files, session))
        IN \A i \in 1..Len(lines) : lines[i].index = i - 1

\* The step writes a record with the given index: a line that was not in the
\* segment files before.
NewlyStored(index) ==
    \E key \in DOMAIN files' :
        \E n \in 1..Len(files'[key]) :
            /\ files'[key][n].index = index
            /\ key \in DOMAIN files => n > Len(files[key])

\* C18: atomic consumer step.  Every drain pass persists each index it
\* assigns: the records numbered by the pass are written to the segment
\* files in that pass, and the last of them is in the Hot Buffer.
C18_AtomicConsumerStep ==
    [][DrainStep =>
           /\ \A i \in _packet_global_index .. (_packet_global_index' - 1) :
                  NewlyStored(i)
           /\ (_packet_global_index' - 1) \in DOMAIN _packet_cache']_vars

\* C19: drain before close on stop.  The step that closes the writer
\* (stop_capture) persists every record that is in the queue when it
\* starts: the segment files grow by the length of the queue.
C19_DrainBeforeClose ==
    [][(_jsonl_writer # <<>> /\ _jsonl_writer' = <<>>) =>
           TotalLines(files', DOMAIN files')
               = TotalLines(files, DOMAIN files) + Len(packet_queue)]_vars

\* C20: records arriving after stop are discarded.  stop_capture empties the
\* queue, so a record in the queue while no capture is under way was
\* delivered after the stop; a drain pass in that state assigns no index and
\* leaves the Hot Buffer and the page state as they are.
C20_DiscardAfterStop ==
    [][(phase = "idle" /\ DrainStep) =>
           UNCHANGED <<_packet_global_index, captured_packets, _packet_cache,
                       _current_page, _new_packets_since_page,
                       _pending_page_reload, packet_table, page_label>>]_vars

\* The steps that run outside the GUI thread: the capture thread's callback
\* (it only emits packet_captured, whose slot queues the packet), the start
\* helper thread and the background stop_sniffer thread.
ThreadStep ==
    \/ _start_capture_thread
    \/ stop_sniffer
    \/ \E summary \in Summaries : \E max_records \in 0..MaxIndex :
           _on_packet_captured(summary, max_records)

C22_FetchViewMerge ==
    \A start_idx \in 0..(MaxIndex - 1) :
        \A end_idx \in start_idx..(MaxIndex - 1) :
            LET rows == _load_page_by_index(Self, start_idx, end_idx).packet_table
            IN /\ \A n \in 1..(Len(rows) - 1) : rows[n][1] < rows[n + 1][1]
               /\ \A n \in 1..Len(rows) :
                      /\ start_idx <= rows[n][1]
                      /\ rows[n][1] <= end_idx
                      /\ \A m \in 1..Len(captured_packets) :
                             captured_packets[m][1] = rows[n][1]
                                 => rows[n][2] = captured_packets[m][2]

\* C28: empty stream.  Whenever the next index is 0 the view is the
\* sentinel empty view (no rows, page 1, the label without a record range);
\* goto-latest yields that view again for every page size text, and prev
\* and next leave the application state as it is.
C28_EmptyStream ==
    _packet_global_index = 0 =>
        /\ packet_table = <<>>
        /\ _current_page = 1
        /\ page_label = NoRecordsLabel
        /\ \A text \in PageSizeTexts :
               LET latest == _on_load_page(Self, text)
               IN /\ latest.packet_table = <<>>
                  /\ latest._current_page = 1
                  /\ latest.page_label = NoRecordsLabel
                  /\ latest._packet_global_index = 0
        /\ _on_prev_page(Self) = Self
        /\ _on_next_page(Self) = Self

\* C28 witness: the stream is empty again after records were captured and
\* written: an empty capture file was loaded.
C28_Witness ==
    /\ _packet_global_index = 0
    /\ TotalLines(files, DOMAIN files) > 0
    /\ _page_size < DefaultPageSize

\* C29: view completeness.  When the stream is the capture session's own
\* (its segments hold the records 0 .. N-1 as appended, the next index is N
\* and the Hot Buffer holds records of the stream), then with no display
\* filter fetching any page p of 1 .. total_pages returns one row for every
\* index of [start(p), end(p)], in index order, each showing the record
\* appended under that index, and nothing else.
C29_ViewComplete ==
    (/\ _capture_session_name # 0
     /\ CaptureStream(_capture_session_name)
     /\ HotBufferOfStream(_capture_session_name))
    => \A p \in 1..TotalPages(_packet_global_index, _page_size) :
           LET start_idx == PageStart(p, _page_size)
               end_idx == PageEnd(p, _page_size, _packet_global_index - 1)
               rows == _load_page_by_index(
                           [Self EXCEPT !._display_filter_enabled = FALSE],
                           start_idx, end_idx).packet_table
           IN /\ Len(rows) = end_idx - start_idx + 1
              /\ \A n \in 1..Len(rows) :
                     /\ rows[n][1] = start_idx + n - 1
                     /\ rows[n][2] \in Stored(_capture_session_name, rows[n][1])

\* C30: File Cache coherence.  Every entry of the File Cache is keyed by a
\* file on disk and equals the records that file holds now.
C30_FileCacheCoherent ==
    \A key \in DOMAIN _file_cache :
        /\ key \in DOMAIN files
        /\ _file_cache[key] = ParseFile(files[key])

\* C25: malformed lines are skipped, not fatal.  With nothing cached, a
\* range read over a session returns every well-formed record of its files
\* whose index is in the range, in file order, by _read_packets_with_cache;
\* read_all_jsonl_packets returns every well-formed record, sorted.
C25_MalformedLinesSkipped ==
    \A session \in SessionsUsed :
        LET lines == SessionLines(files, SessionFiles(files, session))
            good == ParseFile(WellFormed(lines))
        IN /\ read_all_jsonl_packets(files, session) = SortByIndex(good)
           /\ _file_cache = <<>> =>
                  \A start_idx \in 0..(MaxIndex - 1) :
                      \A end_idx \in start_idx..(MaxIndex - 1) :
                          _read_packets_with_cache(Self, session, start_idx,
                                                   end_idx).results
                              = FilterRange(good, start_idx, end_idx)

\* The directory with the given files emptied.
Emptied(disk, keys) ==
    [k \in DOMAIN disk |-> IF k \in keys THEN <<>> ELSE disk[k]]

\* C26: a missing or unreadable segment is treated as empty.  For every set
\* of segment files that cannot be opened, a range read returns what it
\* returns when the files it had to open among them are empty, creates no
\* cache entry for any of those, and read_all_jsonl_packets returns what it
\* returns when the files are empty.
C26_UnreadableAsEmpty ==
    \A session \in SessionsUsed :
        \A unreadable \in SUBSET {k \in DOMAIN files : k[1] = session} :
            LET io == [NoFault EXCEPT !.unreadable = unreadable]
                opened == unreadable \ DOMAIN _file_cache
                rd == _read_packets_with_cache([Self EXCEPT !.io = io],
                                               session, 0, MaxIndex)
                re == _read_packets_with_cache(
                          [Self EXCEPT !.files = Emptied(files, opened)],
                          session, 0, MaxIndex)
            IN /\ rd.results = re.results
               /\ opened \cap DOMAIN rd._file_cache = {}
               /\ \A k \in DOMAIN rd._file_cache :
                      k \in DOMAIN re._file_cache
                          /\ rd._file_cache[k] = re._file_cache[k]
               /\ read_all_jsonl_packets_io(files, session, io)
                      = read_all_jsonl_packets(Emptied(files, unreadable), session)

\* C26 witness: a page of four records was loaded while the first segment,
\* three intact records, could not be opened: the table shows no record of
\* the first segment that is not in the Hot Buffer, and the first segment
\* has no cache entry while the second has one.
C26_Witness ==
    /\ DOMAIN files = {FileKey(1, 1), FileKey(1, 2)}
    /\ Len(files[FileKey(1, 1)]) = 3
    /\ \A n \in 1..3 : ~Malformed(files[FileKey(1, 1)][n])
    /\ page_label.start = 0
    /\ page_label.end = 3
    /\ packet_table # <<>>
    /\ Indices(packet_table) = Indices(captured_packets)
    /\ 0 \notin Indices(packet_table)
    /\ DOMAIN _file_cache = {FileKey(1, 2)}

\* C23: append failure is non-fatal and non-sticky.  A drain pass under any
\* storage condition completes its step for every record it takes from the
\* queue (the index advances by their number), and after it a writer whose
\* first segment was opened accepts a write on working storage.
C23_AppendFailureNotSticky ==
    [][\A io \in IoFaults :
           _drain_packet_queue_io(BadText, io) =>
               /\ _packet_global_index' - _packet_global_index
                      = Min(_batch_size_setting, Len(packet_queue))
               /\ Len(packet_queue')
                      = Len(packet_queue) - Min(_batch_size_setting, Len(packet_queue))
               /\ \A n \in DOMAIN _jsonl_writer' :
                      FileKey(_jsonl_writer'[n].session_name, 1) \in DOMAIN files'
                          => \A summary \in Summaries :
                                 write(_jsonl_writer'[n], files',
                                       Payload(_packet_global_index', summary)).ok]_vars

\* The indices of the records in the segment files.
StoredIndices ==
    UNION {{files[k][n].index : n \in 1..Len(files[k])} : k \in DOMAIN files}

\* The number of failed appends since the last successful one: the caller
\* numbers every append, so these are the indices after the last index that
\* reached the segment files.
ConsecutiveFaults ==
    IF StoredIndices = {} THEN _packet_global_index
    ELSE _packet_global_index - 1
             - (CHOOSE i \in StoredIndices : \A j \in StoredIndices : j <= i)

\* C24: degraded mode.  A writer rejects an append on working storage
\* without attempting it only after repeated consecutive failed appends: a
\* writer that has seen no fault, a single fault, or a successful append
\* since its last fault accepts the append (for a threshold that every
\* single record fits).
C24_DegradedMode ==
    \A n \in DOMAIN _jsonl_writer :
        (/\ ConsecutiveFaults <= 1
         /\ \A summary \in Summaries :
                line_size(Payload(0, summary)) <= _jsonl_writer[n].max_file_size) =>
            \A summary \in Summaries :
                write(_jsonl_writer[n], files,
                      Payload(_packet_global_index, summary)).ok

\* C27: writer open failure is an explicit error.  The step that constructs
\* the session's writer leaves either no writer or a writer whose segment
\* file is open.
C27_OpenFailureExplicit ==
    [][(_jsonl_writer = <<>> /\ _jsonl_writer' # <<>>)
           => _jsonl_writer'[1]._current_file]_vars


(***************************************************************************)
(* Loaded captures.                                                        *)
(***************************************************************************)
\* The stream is a loaded capture: load_capture has filled the Hot Buffer
\* with loaded records and nothing has been captured since.
LoadedStream ==
    /\ captured_packets # <<>>
    /\ \A i \in DOMAIN captured_packets : captured_packets[i][2].summary = "L"

\* C31: loaded data is never mixed with an earlier session.  While the
\* stream is a loaded capture, every row of the page shown and every point
\* read of an index of the stream is a loaded record, never a record of the
\* segment files of a capture session.
C31_LoadedNotMixed ==
    LoadedStream =>
        /\ \A row \in DOMAIN packet_table : packet_table[row][2].summary = "L"
        /\ \A index \in 0..(_packet_global_index - 1) :
               LET found == _get_packet_by_global_index(Self, index).packet
               IN found # <<>> => found[1].summary = "L"


(***************************************************************************)
(* CaptureManager: stop and restart against the stop_sniffer thread.       *)
(***************************************************************************)
\* The caller is back in its own code and every stop_sniffer thread has
\* finished.
CaptureQuiescent ==
    /\ caller.pc = "idle"
    /\ \A t \in DOMAIN stop_sniffer_threads : stop_sniffer_threads[t].pc = "done"

\* C32: CaptureManager.stop really stops the sniffer.  In every interleaving
\* of the caller and the stop_sniffer thread, once the thread that a stop()
\* call started has finished, the sniffer the manager referred to at the
\* call has had its stop() method invoked.
C32_StopStopsSniffer ==
    \A t \in DOMAIN stop_sniffer_threads :
        stop_sniffer_threads[t].pc = "done"
            => sniffers[stop_sniffer_threads[t].called_for].stop_called

\* C33: restart leaves a new capture running.  In every interleaving of
\* restart() with the stop_sniffer thread of its stop(), once restart() has
\* returned and the threads have finished, the manager refers to the sniffer
\* restart() created, that sniffer is running and was never stopped, and
\* current_filter() and current_interface() return the arguments of
\* restart().
C33_RestartLeavesCaptureRunning ==
    (CaptureQuiescent /\ caller.op = "restart") =>
        /\ _sniffer = Len(sniffers)
        /\ _sniffer # 0
        /\ sniffers[_sniffer].running
        /\ ~sniffers[_sniffer].stop_called
        /\ current_filter = caller.filter_expr
        /\ current_interface = caller.iface


(***************************************************************************)
(* ResourceMonitor: one sampling thread.                                   *)
(***************************************************************************)
\* C34: at most one ResourceMonitor sampling thread.  After any sequence of
\* start() and stop() calls, a stop() whose join timed out included, the
\* only _run loop that goes on to take a sample is the one the monitor
\* refers to; a loop that stop() has let go of leaves at its next wait.
C34_OneSamplingThread ==
    [][\A t \in DOMAIN run_threads :
           (run_threads[t] = "wait" /\ run_threads'[t] = "sample")
               => t = _thread]_vars


(***************************************************************************)
(* The pending-new counter.                                                *)
(***************************************************************************)
\* C35: the pending counter is zero on the last page.  At the end of every
\* operation the counter _new_packets_since_page is 0 when the current page
\* is the last page; it is non-zero only on a page before the last one.
C35_PendingZeroOnLastPage ==
    /\ _current_page = LastPage => _new_packets_since_page = 0
    /\ _new_packets_since_page # 0 => _current_page < LastPage


(***************************************************************************)
(* The consumer's batches.                                                 *)
(***************************************************************************)
\* C36: consumer ordering and batching.  One drain pass takes at most
\* batch_size records from the head of the queue and leaves the rest; the
\* records taken get consecutive indices in the order they arrived, and
\* _packet_global_index grows by exactly 1 per record taken whether or not
\* the write to the segment succeeded.
C36_ConsumerBatching ==
    [][\A io \in IoFaults :
           _drain_packet_queue_io(BadText, io) =>
               LET n == Min(_batch_size_setting, Len(packet_queue))
               IN /\ packet_queue' = SubSeq(packet_queue, n + 1, Len(packet_queue))
                  /\ _packet_global_index' = _packet_global_index + n
                  /\ LastN(captured_packets', n) =
                         [k \in 1..n |-> <<_packet_global_index + k - 1,
                                           packet_queue[k]>>]]_vars

\* With batch size 1, two records of different kinds were taken in the order
\* they arrived, one of them was not written, and a record is still queued.
C36_Witness ==
    /\ _batch_size_setting = 1
    /\ packet_queue # <<>>
    /\ _packet_global_index = 2
    /\ captured_packets = <<<<0, ParsedPacket("a", "none")>>,
                            <<1, ParsedPacket("b", "none")>>>>
    /\ TotalLines(files, DOMAIN files) = 1


(***************************************************************************)
(* The File Cache and its LRU order.                                       *)
(***************************************************************************)
\* C37: File Cache structural invariant.  In every reachable state the LRU
\* order list holds each key of _file_cache exactly once and nothing else,
\* and the cache holds at most _file_cache_max_files entries; stop_capture
\* empties the cache and the list together.
C37_FileCacheStructure ==
    /\ [](/\ Len(_file_cache_access_order) = Cardinality(DOMAIN _file_cache)
          /\ \A key \in DOMAIN _file_cache :
                 Cardinality({n \in DOMAIN _file_cache_access_order :
                                 _file_cache_access_order[n] = key}) = 1
          /\ Cardinality(DOMAIN _file_cache) <= FileCacheMaxFiles)
    /\ [][stop_capture =>
              _file_cache' = <<>> /\ _file_cache_access_order' = <<>>]_vars

\* A capture of more segments than the cache holds has been stopped with
\* rows on the page that were read through the cache, and cache and list
\* are empty.
C37_Witness ==
    /\ phase = "idle"
    /\ Cardinality(DOMAIN files) > FileCacheMaxFiles
    /\ \E row \in DOMAIN packet_table :
           packet_table[row][1] \notin Indices(captured_packets)
    /\ _file_cache = <<>>
    /\ _file_cache_access_order = <<>>


(***************************************************************************)
(* Resizing the Hot Buffer.                                                *)
(***************************************************************************)
\* Deque and map hold the same records under the same bound.
HotInStep ==
    /\ Indices(captured_packets) = DOMAIN _packet_cache
    /\ Len(captured_packets) = Cardinality(DOMAIN _packet_cache)
    /\ Len(captured_packets) <= _ui_cache_size
    /\ _packet_cache_max_size = _ui_cache_size

\* C38: Hot Buffer resize.  When open_settings changes the cache size in a
\* state where deque and map hold the same indices, afterwards both hold
\* exactly the min(new capacity, previous count) highest indices held
\* before, both bounds equal the new capacity, and every later drain pass
\* keeps the two in step.
C38_HotBufferResize ==
    [][/\ \A auto_page \in BOOLEAN, batch_size \in 1..MaxBatch,
             cache_size \in 1..MaxCacheSize :
              (/\ open_settings(auto_page, batch_size, cache_size)
               /\ cache_size # _ui_cache_size
               /\ Indices(captured_packets) = DOMAIN _packet_cache) =>
                  LET before == DOMAIN _packet_cache
                      after == DOMAIN _packet_cache'
                  IN /\ after \subseteq before
                     /\ Cardinality(after) = Min(cache_size, Cardinality(before))
                     /\ \A a \in after, b \in before \ after : a > b
                     /\ Indices(captured_packets') = after
                     /\ Len(captured_packets') = Cardinality(after)
                     /\ \A n \in DOMAIN captured_packets' :
                            _packet_cache'[captured_packets'[n][1]]
                                = captured_packets'[n][2]
                     /\ _ui_cache_size' = cache_size
                     /\ _packet_cache_max_size' = cache_size
       /\ \A text \in PageSizeTexts :
              (HotInStep /\ _drain_packet_queue(text)) => HotInStep']_vars

\* Two records were held and shown as a page without any segment on disk,
\* and the Hot Buffer, resized to capacity 1, holds the higher index in
\* deque and map.
C38_Witness ==
    /\ files = <<>>
    /\ _packet_global_index = 2
    /\ Len(packet_table) = 2
    /\ _ui_cache_size = 1
    /\ _packet_cache_max_size = 1
    /\ Indices(captured_packets) = {1}
    /\ DOMAIN _packet_cache = {1}

====
